---------------------------- MODULE Spec2Model ----------------------------
(***************************************************************************)
(* Model of the secure-chat storage service and crypto envelope.          *)
(*                                                                         *)
(* The backing document store is the shared state (collections "users"    *)
(* and "rooms").  Every exported async function of the storage service is *)
(* a client call that runs as a sequence of atomic store operations, one  *)
(* step per `await`; steps of different calls interleave freely.          *)
(***************************************************************************)
EXTENDS Naturals, Sequences, FiniteSets, TLC

(***************************************************************************)
(* Bounds of the model.                                                    *)
(***************************************************************************)
\* number of calls that may be started in one behaviour
MaxCalls == 3
\* number of messages a room may hold in the message specifications
MaxMsgs == 2

(***************************************************************************)
(* Identities.                                                             *)
(***************************************************************************)
\* id of the synthetic administrator; the store holds no record for it
AdminId == "admin-root"
\* ids of registered users (Date.now().toString() at registration)
UserIds == {"1001", "1002"}
AllIds == UserIds \cup {AdminId}
\* ids in the order Array.prototype.sort() puts them (UTF-16 code units)
IdsSorted == <<"1001", "1002", "2001", "2002", "admin-root">>
NoId == "none"
\* the clients whose calls interleave
Procs == {"c1", "c2"}
\* id of the group room (a 7-digit code drawn by handleCreateRoom)
GroupRoomId == "1234567"
\* usernames a caller may type; "ghost" matches no stored user
Usernames == {"alice", "bob", "ghost"}
Commands == {"/kick", "/ban", "/mute", "/warn"}

VARIABLES
  users,    \* collection "users": user id -> document
  rooms,    \* collection "rooms": room id -> document
  call,     \* per client: the call in flight, its position and its locals
  ncalls,   \* number of calls started so far
  cv,       \* the crypto envelope's last computation
  subMsgs,  \* sub-collection rooms/{GroupRoomId}/messages, by timestamp
  sess,     \* per client: the App component's state (session)
  logs      \* collection "logs": the events recorded with addLog, in order

vars == <<users, rooms, call, ncalls, cv, subMsgs, sess, logs>>

(***************************************************************************)
(* Documents.                                                              *)
(***************************************************************************)
UserDoc(name) ==
  [username |-> name, friends |-> {}, friendRequests |-> {}]

RoomDoc(type, participants) ==
  [type |-> type, participants |-> participants, messages |-> <<>>,
   bannedUsers |-> {}, mutedUsers |-> {}]

RegisteredUsers ==
  [u \in UserIds |-> UserDoc(IF u = "1001" THEN "alice" ELSE "bob")]

\* docSnap.exists()
UserExists(u) == u \in DOMAIN users
RoomExists(r) == r \in DOMAIN rooms

\* query(collection(db, "users"), where("username", "==", username))
searchUsersByName(name) == {u \in DOMAIN users : users[u].username = name}

\* targets[0] of a non-empty query result
Rank(id) == CHOOSE i \in 1..Len(IdsSorted) : IdsSorted[i] = id
FirstOf(S) == CHOOSE u \in S : \A v \in S : Rank(u) <= Rank(v)

(***************************************************************************)
(* Client calls.                                                           *)
(***************************************************************************)
IdleCall ==
  [op |-> "idle", pc |-> "idle", room |-> "", user |-> NoId, other |-> NoId,
   flag |-> FALSE, cmd |-> "", snapP |-> {}, snapS |-> {}, snapM |-> <<>>,
   res |-> ""]

\* the state of the App component before anyone has logged in:
\* currentUser null, authError { type: null, message: '' },
\* isAuthProcessing false, currentRoom null; apiKey tells whether the build
\* has process.env.API_KEY; h is the handler in flight, arg, hroom and msg
\* its locals, notice the last alert shown.  currentRoom.doc is empty for
\* the stub { id } that handleJoinRoom sets and holds the room record once a
\* snapshot is installed; luser is the currentUser that the closure of the
\* room listener has captured (the effect re-runs only when currentRoom?.id
\* changes); subs are the store subscriptions the effects of the component
\* hold, rec the user ids of the recordUserLogin calls that were started
\* and have not reached the store
NoRoom == [id |-> "", doc |-> <<>>]
NoError == [type |-> "null", message |-> ""]
AnonSession ==
  [currentUser |-> NoId, authError |-> NoError, isAuthProcessing |-> FALSE,
   currentRoom |-> NoRoom, luser |-> NoId, apiKey |-> FALSE, h |-> "none",
   arg |-> <<>>, hroom |-> "", msg |-> <<>>, notice |-> "", subs |-> {},
   rec |-> {}]
NoSessions == [p \in Procs |-> AnonSession]

\* a subscription: listenToUser(key), listenToRoom(key), listenToPublicRooms
Sub(kind, key) == [kind |-> kind, key |-> key]

\* an effect of the component after a render: when its dependencies have
\* changed, the cleanup of its previous run disposes what that run
\* registered, then the body registers anew
RunEffect(subs, changed, disposed, registered) ==
  IF changed THEN (subs \ disposed) \cup registered ELSE subs

UserListenerAdminToo(s) ==
  IF s.currentUser # NoId THEN {Sub("user", s.currentUser)} ELSE {}

\* what the user listener effect registers for session state s: nothing
\* without a user and nothing for the administrator
UserListener(s) ==
  IF s.currentUser \notin {NoId, AdminId}
    THEN {Sub("user", s.currentUser)} ELSE {}

\* what the room listener effect registers
RoomListener(s) ==
  IF s.currentRoom.id # "" THEN {Sub("room", s.currentRoom.id)} ELSE {}

\* what the room list effect registers
RoomListListener(s) ==
  IF s.currentUser # NoId THEN {Sub("rooms", "")} ELSE {}

\* the effects that run when the session state goes from old to new
Effects(old, new) ==
  LET userChanged == new.currentUser # old.currentUser
      roomChanged == new.currentRoom.id # old.currentRoom.id
      a == RunEffect(old.subs, userChanged, UserListener(old), UserListener(new))
      b == RunEffect(a, roomChanged, RoomListener(old), RoomListener(new))
  IN [new EXCEPT !.subs =
        RunEffect(b, userChanged, RoomListListener(old), RoomListListener(new))]

Idle(p) == call[p].pc \in {"idle", "done", "thrown"}
CanStart(p) == Idle(p) /\ ncalls < MaxCalls

\* the call of p returns res; its locals are dead
Return(p, res) ==
  [call[p] EXCEPT !.pc = "done", !.res = res, !.snapP = {}, !.snapS = {},
                  !.snapM = <<>>]
\* the call of p rejects
Throw(p, res) ==
  [call[p] EXCEPT !.pc = "thrown", !.res = res, !.snapP = {}, !.snapS = {},
                  !.snapM = <<>>]

(***************************************************************************)
(* joinRoom(roomId, userId, isAdmin)                                       *)
(***************************************************************************)
StartJoin(p, r, u, adm) ==
  /\ CanStart(p)
  /\ call' = [call EXCEPT ![p] =
       [IdleCall EXCEPT !.op = "joinRoom", !.pc = "join_read", !.room = r,
                        !.user = u, !.flag = adm]]
  /\ ncalls' = ncalls + 1
  /\ UNCHANGED <<users, rooms, cv, subMsgs, sess, logs>>

\* the branch joinRoom takes on the room it has read:
\* "write" (arrayUnion follows), "ok" (already a participant) or an error
JoinDecisionNoBanCheck(room, u, adm) ==
  IF adm THEN (IF u \notin room.participants THEN "write" ELSE "ok")
  ELSE IF room.type = "private" /\ u \notin room.participants
       THEN "Access Denied: Private channel."
  ELSE IF u \notin room.participants THEN "write" ELSE "ok"

JoinDecisionAdminBanCheck(room, u, adm) ==
  IF u \in room.bannedUsers THEN "Access Denied: Banned."
  ELSE IF adm THEN (IF u \notin room.participants THEN "write" ELSE "ok")
  ELSE IF room.type = "private" /\ u \notin room.participants
       THEN "Access Denied: Private channel."
  ELSE IF u \notin room.participants THEN "write" ELSE "ok"

JoinDecision(room, u, adm) ==
  IF adm THEN (IF u \notin room.participants THEN "write" ELSE "ok")
  ELSE IF u \in room.bannedUsers THEN "Access Denied: Banned."
  ELSE IF room.type = "private" /\ u \notin room.participants
       THEN "Access Denied: Private channel."
  ELSE IF u \notin room.participants THEN "write" ELSE "ok"

\* await getDoc(roomRef), then the checks up to the next await
JoinRead(p) ==
  /\ call[p].pc = "join_read"
  /\ LET c == call[p] IN
     call' = [call EXCEPT ![p] =
       IF ~RoomExists(c.room) THEN Return(p, "Room not found")
       ELSE LET d == JoinDecision(rooms[c.room], c.user, c.flag) IN
            IF d = "write" THEN [c EXCEPT !.pc = "join_write"]
            ELSE IF d = "ok" THEN Return(p, "success")
            ELSE Return(p, d)]
  /\ UNCHANGED <<users, rooms, ncalls, cv, subMsgs, sess, logs>>

\* await updateDoc(roomRef, { participants: arrayUnion(userId) })
JoinWrite(p) ==
  /\ call[p].pc = "join_write"
  /\ LET c == call[p] IN
     IF RoomExists(c.room)
     THEN /\ rooms' = [rooms EXCEPT ![c.room].participants = @ \cup {c.user}]
          /\ call' = [call EXCEPT ![p] = Return(p, "success")]
     ELSE /\ rooms' = rooms
          /\ call' = [call EXCEPT ![p] = Throw(p, "not-found")]
  /\ UNCHANGED <<users, ncalls, cv, subMsgs, sess, logs>>

(***************************************************************************)
(* executeCommand(roomId, adminId, command, targetUsername)                *)
(* adminId is not read by the function and is not kept.                    *)
(***************************************************************************)
StartExec(p, r, cmd, name) ==
  /\ CanStart(p)
  /\ call' = [call EXCEPT ![p] =
       [IdleCall EXCEPT !.op = "executeCommand", !.pc = "exec_search",
                        !.room = r, !.cmd = cmd, !.res = name]]
  /\ ncalls' = ncalls + 1
  /\ UNCHANGED <<users, rooms, cv, subMsgs, sess, logs>>

\* await searchUsersByName(targetUsername); targetUser = users[0]
ExecSearch(p) ==
  /\ call[p].pc = "exec_search"
  /\ LET c == call[p]
         found == searchUsersByName(c.res) IN
     call' = [call EXCEPT ![p] =
       IF found = {} THEN Return(p, "User not found")
       ELSE [c EXCEPT !.pc = "exec_read", !.other = FirstOf(found), !.res = ""]]
  /\ UNCHANGED <<users, rooms, ncalls, cv, subMsgs, sess, logs>>

\* room.participants.filter(id => id !== targetUser.id)
FilterOut(participants, target) == participants \ {target}

ExecReadUnknownMutes(p) ==
  /\ call[p].pc = "exec_read"
  /\ LET c == call[p] IN
     call' = [call EXCEPT ![p] =
       IF ~RoomExists(c.room) THEN Return(p, "Room error")
       ELSE IF c.cmd = "/kick"
         THEN [c EXCEPT !.pc = "kick_write",
                        !.snapP = FilterOut(rooms[c.room].participants, c.other)]
       ELSE IF c.cmd = "/ban"
         THEN [c EXCEPT !.pc = "ban_write",
                        !.snapP = FilterOut(rooms[c.room].participants, c.other)]
       ELSE [c EXCEPT !.pc = "mute_write"]]
  /\ UNCHANGED <<users, rooms, ncalls, cv, subMsgs, sess, logs>>

\* await getDoc(roomRef), then the dispatch on the command
ExecRead(p) ==
  /\ call[p].pc = "exec_read"
  /\ LET c == call[p] IN
     call' = [call EXCEPT ![p] =
       IF ~RoomExists(c.room) THEN Return(p, "Room error")
       ELSE IF c.cmd = "/kick"
         THEN [c EXCEPT !.pc = "kick_write",
                        !.snapP = FilterOut(rooms[c.room].participants, c.other)]
       ELSE IF c.cmd = "/ban"
         THEN [c EXCEPT !.pc = "ban_write",
                        !.snapP = FilterOut(rooms[c.room].participants, c.other)]
       ELSE IF c.cmd = "/mute" THEN [c EXCEPT !.pc = "mute_write"]
       ELSE Return(p, "Unknown command")]
  /\ UNCHANGED <<users, rooms, ncalls, cv, subMsgs, sess, logs>>

\* the field patch each command sends with updateDoc
KickPatch(room, newParticipants, target) ==
  [room EXCEPT !.participants = newParticipants]

BanPatch(room, newParticipants, target) ==
  [room EXCEPT !.participants = newParticipants,
               !.bannedUsers = @ \cup {target}]

MutePatch(room, newParticipants, target) ==
  [room EXCEPT !.mutedUsers = @ \cup {target}]

\* await updateDoc(roomRef, ...) of the command, then the result text
ExecWrite(p) ==
  /\ call[p].pc \in {"kick_write", "ban_write", "mute_write"}
  /\ LET c == call[p] IN
     IF RoomExists(c.room)
     THEN /\ rooms' = [rooms EXCEPT ![c.room] =
               IF c.pc = "kick_write" THEN KickPatch(@, c.snapP, c.other)
               ELSE IF c.pc = "ban_write" THEN BanPatch(@, c.snapP, c.other)
               ELSE MutePatch(@, c.snapP, c.other)]
          /\ call' = [call EXCEPT ![p] =
               Return(p, IF c.pc = "kick_write" THEN "kicked"
                         ELSE IF c.pc = "ban_write" THEN "banned"
                         ELSE "muted")]
     ELSE /\ rooms' = rooms
          /\ call' = [call EXCEPT ![p] = Throw(p, "not-found")]
  /\ UNCHANGED <<users, ncalls, cv, subMsgs, sess, logs>>

(***************************************************************************)
(* sendFriendRequest(fromUserId, toUsername)                               *)
(***************************************************************************)
StartSend(p, from, name) ==
  /\ CanStart(p)
  /\ call' = [call EXCEPT ![p] =
       [IdleCall EXCEPT !.op = "sendFriendRequest", !.pc = "send_search",
                        !.user = from, !.res = name]]
  /\ ncalls' = ncalls + 1
  /\ UNCHANGED <<users, rooms, cv, subMsgs, sess, logs>>

SendDecisionNoFriendsCheck(target, targetId, from) ==
  IF targetId = from THEN "Cannot add yourself"
  ELSE IF from \in target.friendRequests THEN "Request already sent"
  ELSE "write"

\* the checks of sendFriendRequest on the target it has read
SendDecision(target, targetId, from) ==
  IF targetId = from THEN "Cannot add yourself"
  ELSE IF from \in target.friends THEN "Already friends"
  ELSE IF from \in target.friendRequests THEN "Request already sent"
  ELSE "write"

\* await searchUsersByName(toUsername), then the checks
SendSearch(p) ==
  /\ call[p].pc = "send_search"
  /\ LET c == call[p]
         found == searchUsersByName(c.res) IN
     call' = [call EXCEPT ![p] =
       IF found = {} THEN Return(p, "User not found")
       ELSE LET t == FirstOf(found)
                d == SendDecision(users[t], t, c.user) IN
            IF d = "write" THEN [c EXCEPT !.pc = "send_write", !.other = t,
                                          !.res = ""]
            ELSE Return(p, d)]
  /\ UNCHANGED <<users, rooms, ncalls, cv, subMsgs, sess, logs>>

\* await updateDoc(targetRef, { friendRequests: arrayUnion(fromUserId) })
SendWrite(p) ==
  /\ call[p].pc = "send_write"
  /\ LET c == call[p] IN
     /\ users' = [users EXCEPT ![c.other].friendRequests = @ \cup {c.user}]
     /\ call' = [call EXCEPT ![p] = Return(p, "Request sent")]
  /\ UNCHANGED <<rooms, ncalls, cv, subMsgs, sess, logs>>

(***************************************************************************)
(* handleFriendRequest(userId, requesterId, action)                        *)
(* flag is TRUE for 'accept' and FALSE for 'reject'; cmd records whether   *)
(* the requester was pending when the call started, which the function     *)
(* itself never reads.                                                     *)
(***************************************************************************)
\* [userId, requesterId].sort()
SortPair(a, b) == IF Rank(a) <= Rank(b) THEN <<a, b>> ELSE <<b, a>>

PrivateRoomIdUnsorted(a, b) == "private-" \o a \o "-" \o b

\* `private-${[userId, requesterId].sort().join('-')}`
PrivateRoomId(a, b) ==
  "private-" \o SortPair(a, b)[1] \o "-" \o SortPair(a, b)[2]

StartHandle(p, u, r, accept) ==
  /\ CanStart(p)
  /\ call' = [call EXCEPT ![p] =
       [IdleCall EXCEPT !.op = "handleFriendRequest", !.pc = "h_read",
                        !.user = u, !.other = r, !.flag = accept,
                        !.cmd = IF UserExists(u)
                                     /\ r \in users[u].friendRequests
                                  THEN "pending" ELSE ""]]
  /\ ncalls' = ncalls + 1
  /\ UNCHANGED <<users, rooms, cv, subMsgs, sess, logs>>

HandleReadKeepRequests(p) ==
  /\ call[p].pc = "h_read"
  /\ LET c == call[p] IN
     call' = [call EXCEPT ![p] =
       IF ~UserExists(c.user) THEN Return(p, "no user")
       ELSE [c EXCEPT !.pc = "h_requests",
                      !.snapS = users[c.user].friendRequests]]
  /\ UNCHANGED <<users, rooms, ncalls, cv, subMsgs, sess, logs>>

\* await getDoc(userRef); newRequests is computed from this snapshot
HandleRead(p) ==
  /\ call[p].pc = "h_read"
  /\ LET c == call[p] IN
     call' = [call EXCEPT ![p] =
       IF ~UserExists(c.user) THEN Return(p, "no user")
       ELSE [c EXCEPT !.pc = "h_requests",
                      !.snapS = users[c.user].friendRequests \ {c.other}]]
  /\ UNCHANGED <<users, rooms, ncalls, cv, subMsgs, sess, logs>>

\* await updateDoc(userRef, { friendRequests: newRequests })
HandleRequests(p) ==
  /\ call[p].pc = "h_requests"
  /\ LET c == call[p] IN
     /\ users' = [users EXCEPT ![c.user].friendRequests = c.snapS]
     /\ call' = [call EXCEPT ![p] =
          IF c.flag THEN [c EXCEPT !.pc = "h_mine", !.snapS = {}]
          ELSE Return(p, "rejected")]
  /\ UNCHANGED <<rooms, ncalls, cv, subMsgs, sess, logs>>

\* await updateDoc(userRef, { friends: arrayUnion(requesterId) })
HandleMine(p) ==
  /\ call[p].pc = "h_mine"
  /\ LET c == call[p] IN
     /\ users' = [users EXCEPT ![c.user].friends = @ \cup {c.other}]
     /\ call' = [call EXCEPT ![p].pc = "h_theirs"]
  /\ UNCHANGED <<rooms, ncalls, cv, subMsgs, sess, logs>>

\* await updateDoc(requesterRef, { friends: arrayUnion(userId) });
\* updateDoc rejects when the document does not exist
HandleTheirs(p) ==
  /\ call[p].pc = "h_theirs"
  /\ LET c == call[p] IN
     IF UserExists(c.other)
     THEN /\ users' = [users EXCEPT ![c.other].friends = @ \cup {c.user}]
          /\ call' = [call EXCEPT ![p].pc = "h_room"]
     ELSE /\ users' = users
          /\ call' = [call EXCEPT ![p] = Throw(p, "not-found")]
  /\ UNCHANGED <<rooms, ncalls, cv, subMsgs, sess, logs>>

\* await getDoc(roomRef); if (!roomSnap.exists()) ...
HandleRoom(p) ==
  /\ call[p].pc = "h_room"
  /\ LET c == call[p] IN
     call' = [call EXCEPT ![p] =
       IF RoomExists(PrivateRoomId(c.user, c.other))
       THEN Return(p, "accepted")
       ELSE [c EXCEPT !.pc = "h_name"]]
  /\ UNCHANGED <<users, rooms, ncalls, cv, subMsgs, sess, logs>>

\* await getDoc(requesterRef), read for the room's name only
HandleName(p) ==
  /\ call[p].pc = "h_name"
  /\ call' = [call EXCEPT ![p].pc = "h_create"]
  /\ UNCHANGED <<users, rooms, ncalls, cv, subMsgs, sess, logs>>

\* the room document handleFriendRequest builds
NewPrivateRoom(u, r) == RoomDoc("private", {u, r})

\* await setDoc(roomRef, newRoom): a full replace of the document
HandleCreate(p) ==
  /\ call[p].pc = "h_create"
  /\ LET c == call[p] IN
     /\ rooms' = [x \in DOMAIN rooms \cup {PrivateRoomId(c.user, c.other)} |->
                   IF x = PrivateRoomId(c.user, c.other)
                   THEN NewPrivateRoom(c.user, c.other)
                   ELSE rooms[x]]
     /\ call' = [call EXCEPT ![p] = Return(p, "accepted")]
  /\ UNCHANGED <<users, ncalls, cv, subMsgs, sess, logs>>

(***************************************************************************)
(* Messages.  sender is 'user', 'ai' or 'system'; senderName is the        *)
(* sender's username (App.tsx: senderName: currentUser.username).          *)
(***************************************************************************)
Message(id, sender, senderName) ==
  [id |-> id, sender |-> sender, senderName |-> senderName, readBy |-> {}]

Range(seq) == {seq[i] : i \in 1..Len(seq)}

\* arrayUnion(message): appended unless an equal element is present
ArrayUnionSeq(seq, m) == IF m \in Range(seq) THEN seq ELSE Append(seq, m)

(***************************************************************************)
(* addMessageToRoom(roomId, message), messages kept in the room document   *)
(* (services/storageService.ts)                                            *)
(***************************************************************************)
StartAdd(p, r, m) ==
  /\ CanStart(p)
  /\ call' = [call EXCEPT ![p] =
       [IdleCall EXCEPT !.op = "addMessageToRoom", !.pc = "add_write",
                        !.room = r, !.snapM = <<m>>]]
  /\ ncalls' = ncalls + 1
  /\ UNCHANGED <<users, rooms, cv, subMsgs, sess, logs>>

\* await updateDoc(roomRef, { messages: arrayUnion(message) })
AddWrite(p) ==
  /\ call[p].pc = "add_write"
  /\ LET c == call[p] IN
     IF RoomExists(c.room)
     THEN /\ rooms' = [rooms EXCEPT ![c.room].messages =
                         ArrayUnionSeq(@, c.snapM[1])]
          /\ call' = [call EXCEPT ![p] = Return(p, "sent")]
     ELSE /\ rooms' = rooms
          /\ call' = [call EXCEPT ![p] = Throw(p, "not-found")]
  /\ UNCHANGED <<users, ncalls, cv, subMsgs, sess, logs>>

(***************************************************************************)
(* markMessagesAsRead(roomId, userId, room), messages kept in the room     *)
(* document (services/storageService.ts).  room is the caller's snapshot   *)
(* of the room (App.tsx passes currentRoom, the last listener snapshot).   *)
(***************************************************************************)
\* msg.sender === 'user' && !msg.readBy.includes(userId)
\*   && msg.senderName !== userId
QualifiesAlreadyRead(msg, userId) ==
  msg.sender = "user" /\ msg.senderName # userId

QualifiesAnySender(msg, userId) ==
  userId \notin msg.readBy /\ msg.senderName # userId

Qualifies(msg, userId) ==
  msg.sender = "user" /\ userId \notin msg.readBy /\ msg.senderName # userId

HasChanges(messages, userId) ==
  \E i \in 1..Len(messages) : Qualifies(messages[i], userId)

\* room.messages.map(msg => ... { ...msg, readBy: [...msg.readBy, userId] })
UpdatedMessages(messages, userId) ==
  [i \in 1..Len(messages) |->
     IF Qualifies(messages[i], userId)
     THEN [messages[i] EXCEPT !.readBy = @ \cup {userId}]
     ELSE messages[i]]

\* the synchronous part: the map over room.messages and the hasChanges test
StartMark(p, r, u) ==
  /\ CanStart(p)
  /\ RoomExists(r)
  /\ LET c == [IdleCall EXCEPT !.op = "markMessagesAsRead", !.room = r,
                               !.user = u]
         snapshot == rooms[r].messages IN
     call' = [call EXCEPT ![p] =
       IF HasChanges(snapshot, u)
       THEN [c EXCEPT !.pc = "mark_write",
                      !.snapM = UpdatedMessages(snapshot, u)]
       ELSE [c EXCEPT !.pc = "done", !.res = "no write"]]
  /\ ncalls' = ncalls + 1
  /\ UNCHANGED <<users, rooms, cv, subMsgs, sess, logs>>

\* await updateDoc(roomRef, { messages: updatedMessages })
MarkWrite(p) ==
  /\ call[p].pc = "mark_write"
  /\ LET c == call[p] IN
     IF RoomExists(c.room)
     THEN /\ rooms' = [rooms EXCEPT ![c.room].messages = c.snapM]
          /\ call' = [call EXCEPT ![p] = Return(p, "write")]
     ELSE /\ rooms' = rooms
          /\ call' = [call EXCEPT ![p] = Throw(p, "not-found")]
  /\ UNCHANGED <<users, ncalls, cv, subMsgs, sess, logs>>

(***************************************************************************)
(* markMessagesAsRead(roomId, userId, messages), messages kept in the      *)
(* sub-collection rooms/{roomId}/messages (unnamed/part_000).  flag is     *)
(* TRUE for calls of this variant.                                         *)
(***************************************************************************)
maxBatch == 400

\* positions of the list that pass the test of the loop
QualifyingAt(messages, userId) ==
  {i \in 1..Len(messages) : Qualifies(messages[i], userId)}

BatchedNoCap(messages, userId) == QualifyingAt(messages, userId)

\* the positions the loop adds to the batch: it leaves at the first
\* message it meets once updateCount >= maxBatch
Batched(messages, userId) ==
  LET Q == QualifyingAt(messages, userId) IN
  IF Cardinality(Q) <= maxBatch THEN Q
  ELSE {i \in Q : Cardinality({j \in Q : j < i}) < maxBatch}

\* whether the loop left through its break
CapReached(messages, userId) ==
  LET B == Batched(messages, userId) IN
  /\ Cardinality(B) >= maxBatch
  /\ Len(messages) \notin B

\* the loop over messages, up to `if (updateCount > 0)`
StartMarkBatch(p, u) ==
  /\ CanStart(p)
  /\ LET c == [IdleCall EXCEPT !.op = "markMessagesAsRead", !.flag = TRUE,
                               !.room = GroupRoomId, !.user = u]
         B == Batched(subMsgs, u) IN
     call' = [call EXCEPT ![p] =
       IF B # {}
       THEN [c EXCEPT !.pc = "batch_commit",
                      !.snapS = {subMsgs[i].id : i \in B},
                      !.res = IF CapReached(subMsgs, u) THEN "cap" ELSE ""]
       ELSE [c EXCEPT !.pc = "done", !.res = "no write"]]
  /\ ncalls' = ncalls + 1
  /\ UNCHANGED <<users, rooms, cv, subMsgs, sess, logs>>

\* await batch.commit(): readBy: arrayUnion(userId) on each batched document
BatchCommit(p) ==
  /\ call[p].pc = "batch_commit"
  /\ LET c == call[p] IN
     /\ subMsgs' = [i \in 1..Len(subMsgs) |->
                     IF subMsgs[i].id \in c.snapS
                     THEN [subMsgs[i] EXCEPT !.readBy = @ \cup {c.user}]
                     ELSE subMsgs[i]]
     /\ call' = [call EXCEPT ![p] =
          Return(p, IF c.res = "cap" THEN "write, cap reached" ELSE "write")]
  /\ UNCHANGED <<users, rooms, ncalls, cv, sess, logs>>

\* batch.commit() rejects (store unreachable, a document gone): nothing is
\* written, the catch logs the error and the call returns normally
BatchCommitFail(p) ==
  /\ call[p].pc = "batch_commit"
  /\ call' = [call EXCEPT ![p] = Return(p, "commit failed")]
  /\ UNCHANGED <<users, rooms, ncalls, cv, subMsgs, sess, logs>>

(***************************************************************************)
(* The crypto envelope (utils/security.ts).                                *)
(*                                                                         *)
(* A string is a sequence of UTF-16 code units; a buffer is a sequence of  *)
(* abstract bytes.  A character of base64 output stands for the byte it    *)
(* encodes.  AES-GCM is modelled by what it guarantees: decryption         *)
(* returns the plaintext exactly for a buffer that encryption produced     *)
(* under the same key and iv, and rejects every other buffer.              *)
(***************************************************************************)
\* longest plaintext the specification draws
MaxText == 2

MASTER_SECRET == "SECURE_CHAT_V1_MASTER_KEY_MATERIAL"
ForeignSecret == "ANOTHER_SECRET"

\* code units of plaintexts: a letter, the separator, the byte order mark
\* U+FEFF, a high and a low surrogate
CodeUnits == {"a", ":", "U+FEFF", "U+D83D", "U+DE00"}
Texts == UNION {[1..n -> CodeUnits] : n \in 0..MaxText}
\* values of window.crypto.getRandomValues(new Uint8Array(12))
IVs == {"iv1", "iv2"}

\* getKey(): PBKDF2 over the secret with a fixed salt, a function of the secret
DeriveKey(secret) == "key(" \o secret \o ")"

\* new TextEncoder().encode(text): the string is converted to scalar values
\* (a surrogate pair is one scalar, a lone surrogate becomes U+FFFD)
RECURSIVE TextEncode(_)
TextEncode(t) ==
  IF t = <<>> THEN <<>>
  ELSE IF t[1] = "U+D83D" /\ Len(t) >= 2 /\ t[2] = "U+DE00"
    THEN <<"U+1F600">> \o TextEncode(SubSeq(t, 3, Len(t)))
  ELSE IF t[1] \in {"U+D83D", "U+DE00"}
    THEN <<"U+FFFD">> \o TextEncode(Tail(t))
  ELSE <<t[1]>> \o TextEncode(Tail(t))

RECURSIVE ScalarsToUnits(_)
ScalarsToUnits(b) ==
  IF b = <<>> THEN <<>>
  ELSE IF b[1] = "U+1F600"
    THEN <<"U+D83D", "U+DE00">> \o ScalarsToUnits(Tail(b))
  ELSE <<b[1]>> \o ScalarsToUnits(Tail(b))

\* new TextDecoder().decode(buffer): ignoreBOM is false, so a leading byte
\* order mark is consumed and not part of the result
TextDecode(b) ==
  IF b # <<>> /\ b[1] = "U+FEFF" THEN ScalarsToUnits(Tail(b))
  ELSE ScalarsToUnits(b)

RECURSIVE JoinBytes(_)
JoinBytes(b) == IF b = <<>> THEN "" ELSE b[1] \o "," \o JoinBytes(Tail(b))

\* crypto.subtle.encrypt({ name: "AES-GCM", iv }, key, data): ciphertext
\* and tag, one abstract byte that binds key, iv and data
GcmEncrypt(key, iv, data) ==
  <<"gcm(" \o key \o "," \o JoinBytes(iv) \o ";" \o JoinBytes(data) \o ")">>

PlainBuffers == {TextEncode(t) : t \in Texts}

\* crypto.subtle.decrypt(...): [ok, data]; ok is FALSE for an OperationError
GcmDecrypt(key, iv, buffer) ==
  IF \E d \in PlainBuffers : GcmEncrypt(key, iv, d) = buffer
  THEN [ok |-> TRUE,
        data |-> CHOOSE d \in PlainBuffers : GcmEncrypt(key, iv, d) = buffer]
  ELSE [ok |-> FALSE, data |-> <<>>]

\* the abstract bytes a buffer can hold
Bytes ==
  IVs \cup {"junk"} \cup
  UNION {{GcmEncrypt(DeriveKey(s), <<iv>>, d)[1] : d \in PlainBuffers} :
           s \in {MASTER_SECRET, ForeignSecret}, iv \in IVs}

B64Char(byte) == "b64_" \o byte

\* arrayBufferToBase64(buffer): btoa of the bytes
arrayBufferToBase64(buffer) == [i \in 1..Len(buffer) |-> B64Char(buffer[i])]

IsB64Char(c) == c = "a" \/ \E x \in Bytes : B64Char(x) = c

\* base64ToArrayBuffer(base64): [ok, data]; atob throws on a character
\* outside the alphabet and on a length of 1 modulo 4.  The letter "a" is
\* in the alphabet and decodes to bytes that no encryption produced.
base64ToArrayBuffer(str) ==
  IF \E i \in 1..Len(str) : ~IsB64Char(str[i])
    THEN [ok |-> FALSE, data |-> <<>>]
  ELSE IF Cardinality({i \in 1..Len(str) : str[i] = "a"}) % 4 = 1
    THEN [ok |-> FALSE, data |-> <<>>]
  ELSE [ok |-> TRUE,
        data |-> [i \in 1..Len(str) |->
                   IF str[i] = "a" THEN "junk"
                   ELSE CHOOSE x \in Bytes : B64Char(x) = str[i]]]

\* encryptMessage(text); subtle is FALSE where window.crypto.subtle is
\* undefined, which the catch turns into the fallback `return text`
encryptMessage(text, iv, subtle) ==
  IF ~subtle THEN text
  ELSE arrayBufferToBase64(<<iv>>) \o <<":">> \o
       arrayBufferToBase64(
         GcmEncrypt(DeriveKey(MASTER_SECRET), <<iv>>, TextEncode(text)))

Includes(str, c) == \E i \in 1..Len(str) : str[i] = c

\* encryptedText.split(':')[n], n = 0 or 1, of a string that holds a ':'
SplitPart(str, n) ==
  LET colons == {i \in 1..Len(str) : str[i] = ":"}
      first == CHOOSE i \in colons : \A j \in colons : i <= j
      later == {i \in colons : i > first}
      second == IF later = {} THEN Len(str) + 1
                ELSE CHOOSE i \in later : \A j \in later : i <= j IN
  IF n = 0 THEN SubSeq(str, 1, first - 1)
  ELSE SubSeq(str, first + 1, second - 1)

\* the body of the try block: [threw, value]
DecryptTry(encryptedText, subtle) ==
  LET iv == base64ToArrayBuffer(SplitPart(encryptedText, 0))
      data == base64ToArrayBuffer(SplitPart(encryptedText, 1))
      plain == GcmDecrypt(DeriveKey(MASTER_SECRET), iv.data, data.data) IN
  IF ~iv.ok \/ ~data.ok \/ ~subtle \/ ~plain.ok
  THEN [threw |-> TRUE, value |-> <<>>]
  ELSE [threw |-> FALSE, value |-> TextDecode(plain.data)]

decryptMessageNoCatch(encryptedText, subtle) ==
  IF ~Includes(encryptedText, ":")
  THEN [threw |-> FALSE, value |-> encryptedText]
  ELSE DecryptTry(encryptedText, subtle)

\* decryptMessage(encryptedText): [threw, value]; threw is TRUE when the
\* returned promise rejects
decryptMessage(encryptedText, subtle) ==
  IF ~Includes(encryptedText, ":")
  THEN [threw |-> FALSE, value |-> encryptedText]
  ELSE LET r == DecryptTry(encryptedText, subtle) IN
       IF r.threw THEN [threw |-> FALSE, value |-> encryptedText] ELSE r

\* no computation has run
NoCrypto == [op |-> "none", subtle |-> TRUE, plain |-> <<>>, input |-> <<>>,
             threw |-> FALSE, out |-> <<>>]

\* a client seals a plaintext
Seal(text, iv) ==
  /\ cv.op \in {"none", "open", "roundtrip"}
  /\ cv' = [op |-> "seal", subtle |-> cv.subtle, plain |-> text,
            input |-> text, threw |-> FALSE,
            out |-> encryptMessage(text, iv, cv.subtle)]
  /\ UNCHANGED <<users, rooms, call, ncalls, subMsgs, sess, logs>>

\* a client opens the envelope that was just sealed
OpenSealed ==
  /\ cv.op = "seal"
  /\ LET r == decryptMessage(cv.out, cv.subtle) IN
     cv' = [op |-> "roundtrip", subtle |-> cv.subtle, plain |-> cv.plain,
            input |-> cv.out, threw |-> r.threw, out |-> r.value]
  /\ UNCHANGED <<users, rooms, call, ncalls, subMsgs, sess, logs>>

\* a client opens a stored string
Open(str) ==
  /\ cv.op \in {"none", "open", "roundtrip"}
  /\ LET r == decryptMessage(str, cv.subtle) IN
     cv' = [op |-> "open", subtle |-> cv.subtle, plain |-> <<>>,
            input |-> str, threw |-> r.threw, out |-> r.value]
  /\ UNCHANGED <<users, rooms, call, ncalls, subMsgs, sess, logs>>

(***************************************************************************)
(* SpecRoom: joinRoom and executeCommand on one group room, interleaved.   *)
(* The initial participants range over the sets that sequences of joins    *)
(* and kicks produce; isAdmin is true exactly for the administrator        *)
(* (App.tsx: isAdmin = currentUser.role === UserRole.ADMIN).               *)
(***************************************************************************)
InitRoom ==
  /\ users = RegisteredUsers
  /\ \E ps \in SUBSET UserIds :
       rooms = [r \in {GroupRoomId} |-> RoomDoc("group", ps)]
  /\ call = [p \in Procs |-> IdleCall]
  /\ ncalls = 0
  /\ cv = NoCrypto
  /\ subMsgs = <<>>
  /\ sess = NoSessions
  /\ logs = <<>>

NextRoom ==
  \E p \in Procs :
    \/ \E u \in AllIds : StartJoin(p, GroupRoomId, u, u = AdminId)
    \/ \E cmd \in Commands, name \in Usernames :
         StartExec(p, GroupRoomId, cmd, name)
    \/ JoinRead(p)
    \/ JoinWrite(p)
    \/ ExecSearch(p)
    \/ ExecRead(p)
    \/ ExecWrite(p)

SpecRoom == InitRoom /\ [][NextRoom]_vars

(***************************************************************************)
(* SpecMod: only moderation commands run on the group room, so nothing     *)
(* ever adds a participant.                                                *)
(***************************************************************************)
NextMod ==
  \E p \in Procs :
    \/ \E cmd \in Commands, name \in Usernames :
         StartExec(p, GroupRoomId, cmd, name)
    \/ ExecSearch(p)
    \/ ExecRead(p)
    \/ ExecWrite(p)

SpecMod == InitRoom /\ [][NextMod]_vars

(***************************************************************************)
(* Properties of rooms.                                                    *)
(***************************************************************************)

\* C1: in every reachable state of a room, no user id is at the same time
\* in the room's bannedUsers and in its participants.
C1_BannedDisjointParticipants ==
  \A r \in DOMAIN rooms : rooms[r].bannedUsers \cap rooms[r].participants = {}

\* a step in which client p leaves position pc
Leaves(p, pc) == call[p].pc = pc /\ call'[p].pc # pc

\* C2: the store write of a /ban leaves the target out of participants and
\* in bannedUsers; bannedUsers never loses a member; and every non-admin
\* joinRoom that reads the room while the user is banned returns
\* 'Access Denied: Banned.' without writing to the room.
C2_BanEvictsAndDeniesJoin ==
  [][\A p \in Procs :
       /\ (Leaves(p, "ban_write") /\ RoomExists(call[p].room)) =>
            /\ call[p].other \notin rooms'[call[p].room].participants
            /\ call[p].other \in rooms'[call[p].room].bannedUsers
            /\ call'[p].pc = "done"
       /\ \A r \in DOMAIN rooms :
            r \in DOMAIN rooms' /\ rooms[r].bannedUsers \subseteq rooms'[r].bannedUsers
       /\ (/\ Leaves(p, "join_read")
           /\ ~call[p].flag
           /\ RoomExists(call[p].room)
           /\ call[p].user \in rooms[call[p].room].bannedUsers) =>
            /\ call'[p].pc = "done"
            /\ call'[p].res = "Access Denied: Banned."
            /\ rooms' = rooms]_vars

\* a banned user's join has been refused, the ban is in the store
C2_Witness ==
  \E p \in Procs :
    /\ call[p].op = "joinRoom" /\ call[p].pc = "done"
    /\ call[p].res = "Access Denied: Banned."
    /\ call[p].user \in rooms[GroupRoomId].bannedUsers
    /\ call[p].user \notin rooms[GroupRoomId].participants
    /\ \E q \in Procs : call[q].op = "executeCommand" /\ call[q].res = "banned"
                        /\ call[q].other = call[p].user

\* the effect a completed moderation command must have left in the room
Moderated(p) == call[p].op = "executeCommand" /\ call[p].pc = "done"
                /\ call[p].res \in {"kicked", "banned", "muted"}

EffectShown(p) ==
  LET room == rooms[call[p].room]
      t == call[p].other IN
  /\ call[p].cmd = "/kick" => t \notin room.participants
  /\ call[p].cmd = "/ban" => t \notin room.participants /\ t \in room.bannedUsers
  /\ call[p].cmd = "/mute" => t \in room.mutedUsers

\* C6: after two moderation commands of different administrators on the
\* same room against different targets have completed, the room shows the
\* effect of both.
C6_NoLostModeration ==
  \A p, q \in Procs :
    (p # q /\ Moderated(p) /\ Moderated(q) /\ call[p].room = call[q].room
       /\ call[p].other # call[q].other)
    => EffectShown(p) /\ EffectShown(q)

(***************************************************************************)
(* SpecFriend: sendFriendRequest and handleFriendRequest, interleaved.     *)
(* The pending requests of the initial state range over the sets that      *)
(* sequences of sendFriendRequest produce (it takes any sender id, the     *)
(* record-less 'admin-root' too).  A client resolves a request that its    *)
(* user record lists (App.tsx renders the buttons from friendRequests).    *)
(***************************************************************************)
NoRooms == [r \in {} |-> RoomDoc("group", {})]

InitFriend ==
  /\ \E f \in [UserIds -> SUBSET AllIds] :
       /\ \A u \in UserIds : u \notin f[u]
       /\ users = [u \in UserIds |->
                    [RegisteredUsers[u] EXCEPT !.friendRequests = f[u]]]
  /\ rooms = NoRooms
  /\ call = [p \in Procs |-> IdleCall]
  /\ ncalls = 0
  /\ cv = NoCrypto
  /\ subMsgs = <<>>
  /\ sess = NoSessions
  /\ logs = <<>>

NextFriend ==
  \E p \in Procs :
    \/ \E from \in AllIds, name \in Usernames : StartSend(p, from, name)
    \/ \E u \in UserIds, accept \in BOOLEAN :
         \E r \in users[u].friendRequests : StartHandle(p, u, r, accept)
    \/ SendSearch(p)
    \/ SendWrite(p)
    \/ HandleRead(p)
    \/ HandleRequests(p)
    \/ HandleMine(p)
    \/ HandleTheirs(p)
    \/ HandleRoom(p)
    \/ HandleName(p)
    \/ HandleCreate(p)

SpecFriend == InitFriend /\ [][NextFriend]_vars

(***************************************************************************)
(* SpecPriv: accepts of a pair, with messages and moderation commands on   *)
(* the pair's private room.                                                *)
(***************************************************************************)
PairRoomId == PrivateRoomId("1001", "1002")
SomeMessages == {Message("t1", "user", "alice"), Message("t2", "system", "")}

NextPriv ==
  \E p \in Procs :
    \/ \E u \in UserIds :
         \E r \in users[u].friendRequests \cap UserIds : StartHandle(p, u, r, TRUE)
    \/ \E m \in SomeMessages : StartAdd(p, PairRoomId, m)
    \/ \E cmd \in {"/mute", "/ban"}, name \in {"alice", "bob"} :
         StartExec(p, PairRoomId, cmd, name)
    \/ HandleRead(p)
    \/ HandleRequests(p)
    \/ HandleMine(p)
    \/ HandleTheirs(p)
    \/ HandleRoom(p)
    \/ HandleName(p)
    \/ HandleCreate(p)
    \/ AddWrite(p)
    \/ ExecSearch(p)
    \/ ExecRead(p)
    \/ ExecWrite(p)

SpecPriv == InitFriend /\ [][NextPriv]_vars

(***************************************************************************)
(* Properties of the friend graph and of private rooms.                    *)
(***************************************************************************)
Friends(u) == IF UserExists(u) THEN users[u].friends ELSE {}

Accept(p) == call[p].op = "handleFriendRequest" /\ call[p].flag

\* C3: whenever handleFriendRequest(A, B, 'accept') has finished (returned
\* or thrown), B is in A.friends if and only if A is in B.friends.
C3_FriendsSymmetricAfterAccept ==
  \A p \in Procs :
    (Accept(p) /\ call[p].pc \in {"done", "thrown"}) =>
      (call[p].other \in Friends(call[p].user)
         <=> call[p].user \in Friends(call[p].other))

\* the ids a private room of the pair could carry
PairRoomIds(a, b) == {PrivateRoomIdUnsorted(a, b), PrivateRoomIdUnsorted(b, a)}

\* C4: once an accept for a pair has returned, also when two accepts for
\* the pair overlap, exactly one private room of the pair exists: its id is
\* private-{sorted ids} whichever user accepted, its type is private and
\* its participants are exactly the two users.
C4_OnePrivateRoomPerPair ==
  \A a, b \in AllIds :
    /\ Cardinality(PairRoomIds(a, b) \cap DOMAIN rooms) <= 1
    /\ \A p \in Procs :
         (/\ Accept(p) /\ call[p].pc = "done" /\ call[p].res = "accepted"
          /\ {call[p].user, call[p].other} = {a, b})
         => /\ PairRoomIds(a, b) \cap DOMAIN rooms = {PrivateRoomId(a, b)}
            /\ PrivateRoomId(a, b) = PrivateRoomId(b, a)
            /\ rooms[PrivateRoomId(a, b)].type = "private"
            /\ rooms[PrivateRoomId(a, b)].participants = {a, b}

\* both users of a pair have accepted the other, the second accept
\* creating the room after the first one had created it
C4_Witness ==
  \E p, q \in Procs :
    /\ p # q /\ Accept(p) /\ Accept(q)
    /\ call[p].pc = "done" /\ call[p].res = "accepted"
    /\ call[q].pc = "h_create"
    /\ call[p].user = call[q].other /\ call[p].other = call[q].user
    /\ RoomExists(PrivateRoomId(call[p].user, call[p].other))

\* C5: the create-if-absent step of handleFriendRequest never replaces an
\* existing private room: a setDoc that finds the room present leaves its
\* messages, mutedUsers, bannedUsers and participants as they were.
C5_CreateNeverReplaces ==
  [][\A p \in Procs :
       (/\ Leaves(p, "h_create")
        /\ RoomExists(PrivateRoomId(call[p].user, call[p].other)))
       => rooms'[PrivateRoomId(call[p].user, call[p].other)]
            = rooms[PrivateRoomId(call[p].user, call[p].other)]]_vars

(***************************************************************************)
(* SpecMsg: addMessageToRoom and markMessagesAsRead of the storage service *)
(* that keeps messages in the room document, interleaved on one room.      *)
(***************************************************************************)
ChatMessages ==
  {Message("t1", "user", "alice"), Message("t2", "user", "bob"),
   Message("t2", "system", ""), Message("t1", "user", "1001"),
   Message("t1", "ai", "AI")}

InitMsg ==
  /\ users = RegisteredUsers
  /\ rooms = [r \in {GroupRoomId} |-> RoomDoc("group", UserIds)]
  /\ call = [p \in Procs |-> IdleCall]
  /\ ncalls = 0
  /\ cv = NoCrypto
  /\ subMsgs = <<>>
  /\ sess = NoSessions
  /\ logs = <<>>

NextMsg ==
  \E p \in Procs :
    \/ \E m \in ChatMessages :
         /\ Len(rooms[GroupRoomId].messages) < MaxMsgs
         /\ StartAdd(p, GroupRoomId, m)
    \/ \E u \in AllIds : StartMark(p, GroupRoomId, u)
    \/ AddWrite(p)
    \/ MarkWrite(p)

SpecMsg == InitMsg /\ [][NextMsg]_vars

(***************************************************************************)
(* SpecRead: one client runs markMessagesAsRead again and again, each run  *)
(* on the messages the previous run left, in both storage services.  The   *)
(* message lists of the initial state are the short lists over             *)
(* ChatMessages and one list with more than maxBatch unread messages.      *)
(***************************************************************************)
ShortLists ==
  {l \in UNION {[1..n -> ChatMessages] : n \in 0..MaxMsgs} :
     \A i, j \in 1..Len(l) : i # j => l[i].id # l[j].id}

LongList ==
  [i \in 1..(maxBatch + 1) |-> Message(ToString(i), "user", "alice")]

InitRead ==
  /\ users = RegisteredUsers
  /\ \E l \in ShortLists :
       rooms = [r \in {GroupRoomId} |->
                 [RoomDoc("group", UserIds) EXCEPT !.messages = l]]
  /\ subMsgs \in ShortLists \cup {LongList}
  /\ subMsgs = LongList => rooms[GroupRoomId].messages = <<>>
  /\ call = [p \in Procs |-> IdleCall]
  /\ ncalls = 0
  /\ cv = NoCrypto
  /\ sess = NoSessions
  /\ logs = <<>>

NextRead ==
  \/ \E u \in AllIds : StartMark("c1", GroupRoomId, u)
  \/ \E u \in AllIds : StartMarkBatch("c1", u)
  \/ MarkWrite("c1")
  \/ BatchCommit("c1")
  \/ BatchCommitFail("c1")

SpecRead == InitRead /\ [][NextRead]_vars

(***************************************************************************)
(* Properties of messages.                                                 *)
(***************************************************************************)

\* C7: under any interleaving of addMessageToRoom and markMessagesAsRead,
\* every message once appended stays in the room's message sequence with
\* all fields other than readBy unchanged, and no readBy loses a member.
C7_MessagesKeptReadByGrows ==
  [][\A r \in DOMAIN rooms :
       /\ r \in DOMAIN rooms'
       /\ Len(rooms'[r].messages) >= Len(rooms[r].messages)
       /\ \A i \in 1..Len(rooms[r].messages) :
            /\ [rooms'[r].messages[i] EXCEPT !.readBy = {}]
                 = [rooms[r].messages[i] EXCEPT !.readBy = {}]
            /\ rooms[r].messages[i].readBy \subseteq rooms'[r].messages[i].readBy]_vars

\* a step that starts a run of markMessagesAsRead by the reader, and in
\* the storage service, of the run the client has just completed
SecondRun(p) ==
  /\ call[p].op = "markMessagesAsRead" /\ call[p].pc = "done"
  /\ ncalls' = ncalls + 1
  /\ call'[p].op = "markMessagesAsRead"
  /\ call'[p].user = call[p].user
  /\ call'[p].flag = call[p].flag

NoWrite(p) ==
  /\ call'[p].pc = "done" /\ call'[p].res = "no write"
  /\ rooms' = rooms /\ subMsgs' = subMsgs

Envelope(secret, iv, text) ==
  arrayBufferToBase64(<<iv>>) \o <<":">> \o
  arrayBufferToBase64(GcmEncrypt(DeriveKey(secret), <<iv>>, TextEncode(text)))

SomeTexts == {<<>>, <<"a">>, <<":">>, <<"a", ":">>}

StoredStrings ==
  \* no structural marker
  {<<>>, <<"a">>, <<"a", "a">>, <<"U+FEFF">>, <<"U+D83D">>,
   arrayBufferToBase64(<<"iv1">>)}
  \* plaintext that holds the marker
  \cup {<<":">>, <<"a", ":">>, <<":", "a">>, <<"a", ":", "a">>,
        <<"a", "a", ":", "a", "a">>, <<"U+FEFF", ":", "a", "a">>,
        <<"a", "a", ":", "U+D83D">>, <<"a", ":", "a", ":", "a">>}
  \* envelopes of this client and of a foreign one
  \cup {Envelope(s, iv, t) :
          s \in {MASTER_SECRET, ForeignSecret}, iv \in IVs, t \in SomeTexts}
  \* envelopes damaged in the iv, in the data, or cut short
  \cup {arrayBufferToBase64(<<"iv2">>) \o <<":">>
          \o SplitPart(Envelope(MASTER_SECRET, "iv1", t), 1) : t \in SomeTexts}
  \cup {<<"U+FEFF">> \o Envelope(MASTER_SECRET, "iv1", t) : t \in SomeTexts}
  \cup {Envelope(MASTER_SECRET, "iv1", t) \o <<"U+DE00">> : t \in SomeTexts}
  \cup {Envelope(MASTER_SECRET, "iv1", t) \o <<"a">> : t \in SomeTexts}
  \cup {arrayBufferToBase64(<<"iv1">>) \o <<":">>,
        arrayBufferToBase64(<<"iv1">>) \o <<":">> \o arrayBufferToBase64(<<"junk">>),
        <<":">> \o SplitPart(Envelope(MASTER_SECRET, "iv1", <<"a">>), 1)}
  \* a valid envelope followed by a further part
  \cup {Envelope(MASTER_SECRET, "iv1", t) \o <<":", "a">> : t \in SomeTexts}

InitCrypto ==
  /\ users = RegisteredUsers
  /\ rooms = NoRooms
  /\ call = [p \in Procs |-> IdleCall]
  /\ ncalls = 0
  /\ subMsgs = <<>>
  /\ \E b \in BOOLEAN : cv = [NoCrypto EXCEPT !.subtle = b]
  /\ sess = NoSessions
  /\ logs = <<>>

NextCrypto ==
  \/ \E t \in Texts, iv \in IVs : Seal(t, iv)
  \/ OpenSealed
  \/ \E str \in StoredStrings : Open(str)

SpecCrypto == InitCrypto /\ [][NextCrypto]_vars

(***************************************************************************)
(* Properties of the crypto envelope.                                      *)
(***************************************************************************)

\* C9: for every plaintext string P, decryptMessage(encryptMessage(P))
\* returns P.
C9_RoundTrip ==
  cv.op = "roundtrip" => (~cv.threw /\ cv.out = cv.plain)

\* the string decodes as an envelope: its first two parts are the base64
\* of an iv and of a buffer that AES-GCM accepts under this client's key
\* and that iv
DecodesAsEnvelope(str) ==
  /\ Includes(str, ":")
  /\ \E iv \in IVs, d \in PlainBuffers :
       /\ SplitPart(str, 0) = arrayBufferToBase64(<<iv>>)
       /\ SplitPart(str, 1) =
            arrayBufferToBase64(GcmEncrypt(DeriveKey(MASTER_SECRET), <<iv>>, d))

\* C10: decryptMessage never fails its caller, and it returns the input
\* string itself for every string without ':' and for every string that
\* fails to decode as a valid envelope.
C10_OpenTotalAndTolerant ==
  cv.op \in {"open", "roundtrip"} =>
    /\ ~cv.threw
    /\ ~Includes(cv.input, ":") => cv.out = cv.input
    /\ ~(cv.subtle /\ DecodesAsEnvelope(cv.input)) => cv.out = cv.input

\* an envelope sealed under another secret came back unchanged
C10_Witness ==
  /\ cv.op = "open" /\ cv.subtle
  /\ cv.input = Envelope(ForeignSecret, "iv1", <<"a">>)
  /\ cv.out = cv.input /\ ~cv.threw

(***************************************************************************)
(* SpecFriendAny: sendFriendRequest and handleFriendRequest called with    *)
(* arbitrary arguments: any id as sender, user or requester, pending or    *)
(* not, the user itself included.                                          *)
(***************************************************************************)
InitFriendAny ==
  /\ \E f1 \in SUBSET {"1002", AdminId}, f2 \in SUBSET {"1001"} :
       users = [u \in UserIds |->
                 [RegisteredUsers[u] EXCEPT
                    !.friendRequests = IF u = "1001" THEN f1 ELSE f2]]
  /\ rooms = NoRooms
  /\ call = [p \in Procs |-> IdleCall]
  /\ ncalls = 0
  /\ cv = NoCrypto
  /\ subMsgs = <<>>
  /\ sess = NoSessions
  /\ logs = <<>>

NextFriendAny ==
  \E p \in Procs :
    \/ \E from \in AllIds, name \in Usernames : StartSend(p, from, name)
    \/ \E u \in AllIds, r \in AllIds, accept \in BOOLEAN :
         StartHandle(p, u, r, accept)
    \/ SendSearch(p)
    \/ SendWrite(p)
    \/ HandleRead(p)
    \/ HandleRequests(p)
    \/ HandleMine(p)
    \/ HandleTheirs(p)
    \/ HandleRoom(p)
    \/ HandleName(p)
    \/ HandleCreate(p)

SpecFriendAny == InitFriendAny /\ [][NextFriendAny]_vars

\* C11: in every reachable state, after any sequence of sendFriendRequest
\* and handleFriendRequest calls with arbitrary arguments, no user's id is
\* in that user's own friends or friendRequests.
C11_NoSelfFriend ==
  \A u \in DOMAIN users :
    u \notin users[u].friends /\ u \notin users[u].friendRequests

\* the messages sendFriendRequest returns with success: false
SendFailures ==
  {"User not found", "Cannot add yourself", "Already friends",
   "Request already sent"}

\* the four cases in which the claim has sendFriendRequest fail, on the
\* users the call reads
MustFail(from, name) ==
  \/ \A u \in DOMAIN users : users[u].username # name
  \/ \E t \in DOMAIN users :
       /\ t = FirstOf(searchUsersByName(name))
       /\ \/ t = from
          \/ from \in users[t].friends
          \/ from \in users[t].friendRequests

HandlePcs ==
  {"h_requests", "h_mine", "h_theirs", "h_room", "h_name", "h_create"}

InitPrivJoin ==
  /\ \/ /\ users = [u \in UserIds |->
                     [RegisteredUsers[u] EXCEPT !.friendRequests = UserIds \ {u}]]
        /\ rooms = NoRooms
     \/ /\ users = [u \in UserIds |->
                     [RegisteredUsers[u] EXCEPT !.friends = UserIds \ {u}]]
        /\ \E ps \in SUBSET UserIds :
             rooms = [r \in {PairRoomId} |-> RoomDoc("private", ps)]
  /\ call = [p \in Procs |-> IdleCall]
  /\ ncalls = 0
  /\ cv = NoCrypto
  /\ subMsgs = <<>>
  /\ sess = NoSessions
  /\ logs = <<>>

NextPrivJoin ==
  \E p \in Procs :
    \/ \E u \in AllIds : StartJoin(p, PairRoomId, u, u = AdminId)
    \/ \E cmd \in {"/kick", "/ban"}, name \in {"alice", "bob"} :
         StartExec(p, PairRoomId, cmd, name)
    \/ \E u \in UserIds :
         \E r \in users[u].friendRequests : StartHandle(p, u, r, TRUE)
    \/ JoinRead(p)
    \/ JoinWrite(p)
    \/ ExecSearch(p)
    \/ ExecRead(p)
    \/ ExecWrite(p)
    \/ HandleRead(p)
    \/ HandleRequests(p)
    \/ HandleMine(p)
    \/ HandleTheirs(p)
    \/ HandleRoom(p)
    \/ HandleName(p)
    \/ HandleCreate(p)

SpecPrivJoin == InitPrivJoin /\ [][NextPrivJoin]_vars

\* the participants of room r before a step (none when r does not exist)
ParticipantsOf(r) == IF RoomExists(r) THEN rooms[r].participants ELSE {}

\* a non-admin joinRoom of a user outside a private room is refused with
\* an 'Access Denied' error and writes nothing
PrivateJoinDenied ==
  \A p \in Procs :
    (/\ Leaves(p, "join_read") /\ RoomExists(call[p].room)
     /\ rooms[call[p].room].type = "private" /\ ~call[p].flag
     /\ call[p].user \notin rooms[call[p].room].participants)
    => /\ call'[p].pc = "done"
       /\ call'[p].res \in {"Access Denied: Banned.",
                             "Access Denied: Private channel."}
       /\ rooms' = rooms

\* whoever enters a private room's participants is put there by the
\* setDoc of an accept or by the write of an admin join
PrivateEntryOnlyByAcceptOrAdmin ==
  \A r \in DOMAIN rooms' :
    rooms'[r].type = "private" =>
      \A u \in rooms'[r].participants \ ParticipantsOf(r) :
        \E p \in Procs :
          \/ Leaves(p, "h_create") /\ u \in {call[p].user, call[p].other}
          \/ Leaves(p, "join_write") /\ call[p].flag /\ call[p].user = u

\* C14: for every private room R and every non-admin user U not in
\* R.participants, joinRoom(R, U, false) fails with an 'Access Denied'
\* error and leaves R unchanged; a user enters a private room's
\* participants only through handleFriendRequest accept or an admin join.
C14_PrivateRoomClosed ==
  [][PrivateJoinDenied /\ PrivateEntryOnlyByAcceptOrAdmin]_vars

(***************************************************************************)
(* The session of a client (App.tsx).  A handler runs as a sequence of     *)
(* steps, one per await; sess[p].h is the await it is suspended at.        *)
(*                                                                         *)
(* App.tsx imports ADMIN_USERNAME and ADMIN_PASSWORD from ./constants and  *)
(* a synchronous hashPassword, verifyPassword from ./utils/security; these *)
(* are not among the sources and are modelled from the specification: a    *)
(* fixed configuration pair, and an opaque verifier of the password.       *)
(***************************************************************************)
ADMIN_USERNAME == "admin"
ADMIN_PASSWORD == "adminpw"
hashPassword(password) == "hash(" \o password \o ")"
verifyPassword(password, hash) == hash = hashPassword(password)

\* the user record handleAuth builds on registration
\* (logins is the length of loginHistory)
AuthUserDoc(name, password) ==
  [username |-> name, passwordHash |-> hashPassword(password),
   friends |-> {}, friendRequests |-> {}, logins |-> 0]

\* what a visitor may type into the form
FormUsernames == {"", "alice", "carol", ADMIN_USERNAME}
FormPasswords == {"", "pw", ADMIN_PASSWORD}
\* Date.now().toString() of a registration
ClockIds == {"2001", "2002"}

AuthHs == {"auth_login", "auth_register", "auth_add"}

\* addLog(event, ...): the record is added to the collection "logs"
addLog(event) == Append(logs, event)

\* the finally block, after an error was set
AuthFailed(p, type, message) ==
  [sess[p] EXCEPT !.authError = [type |-> type, message |-> message],
                  !.isAuthProcessing = FALSE, !.h = "none", !.arg = <<>>]

\* the finally block, after setCurrentUser
AuthSucceeded(p, id) ==
  Effects(sess[p],
    [sess[p] EXCEPT !.currentUser = id, !.authError = NoError,
                    !.isAuthProcessing = FALSE, !.h = "none", !.arg = <<>>])

\* a session that has arrived at state s, with the subscriptions of its
\* effects
Settled(s) == Effects(AnonSession, s)

\* recordUserLogin(id) is started and not awaited
Recorded(s, id) == [s EXCEPT !.rec = @ \cup {id}]

\* the form is submitted: handleAuth up to its first await
AuthSubmit(p, username, password, isLogin) ==
  /\ sess[p].currentUser = NoId /\ sess[p].h = "none"
  /\ ~sess[p].isAuthProcessing
  /\ ncalls < MaxCalls
  /\ ncalls' = ncalls + 1
  /\ IF username = "" \/ password = ""
     THEN /\ sess' = [sess EXCEPT ![p] =
               AuthFailed(p, "general", "enter username and password")]
          /\ logs' = logs
     ELSE IF username = ADMIN_USERNAME
     THEN IF password = ADMIN_PASSWORD
          THEN /\ sess' = [sess EXCEPT ![p] = AuthSucceeded(p, AdminId)]
               /\ logs' = addLog("LOGIN_SUCCESS")
          ELSE /\ sess' = [sess EXCEPT ![p] =
                    AuthFailed(p, "password", "wrong administrator password")]
               /\ logs' = logs
     ELSE /\ sess' = [sess EXCEPT ![p] =
               [sess[p] EXCEPT !.authError = NoError,
                               !.isAuthProcessing = TRUE,
                               !.h = IF isLogin THEN "auth_login"
                                     ELSE "auth_register",
                               !.arg = <<username, password>>]]
          /\ logs' = logs
  /\ UNCHANGED <<users, rooms, call, cv, subMsgs>>

AuthLoginNoError(p) ==
  /\ sess[p].h = "auth_login"
  /\ LET found == searchUsersByName(sess[p].arg[1]) IN
     IF found = {}
     THEN /\ sess' = [sess EXCEPT ![p] =
               AuthFailed(p, "username", "user not found")]
          /\ logs' = logs
     ELSE IF verifyPassword(sess[p].arg[2], users[FirstOf(found)].passwordHash)
     THEN /\ sess' = [sess EXCEPT ![p] =
               Recorded(AuthSucceeded(p, FirstOf(found)), FirstOf(found))]
          /\ logs' = addLog("LOGIN_SUCCESS")
     ELSE /\ sess' = [sess EXCEPT ![p] =
               [sess[p] EXCEPT !.isAuthProcessing = FALSE, !.h = "none",
                               !.arg = <<>>]]
          /\ logs' = addLog("LOGIN_FAIL")
  /\ UNCHANGED <<users, rooms, call, ncalls, cv, subMsgs>>

\* login: await searchUsersByName(username) resolves, then the checks
AuthLogin(p) ==
  /\ sess[p].h = "auth_login"
  /\ LET found == searchUsersByName(sess[p].arg[1]) IN
     IF found = {}
     THEN /\ sess' = [sess EXCEPT ![p] =
               AuthFailed(p, "username", "user not found")]
          /\ logs' = logs
     ELSE IF verifyPassword(sess[p].arg[2], users[FirstOf(found)].passwordHash)
     THEN /\ sess' = [sess EXCEPT ![p] =
               Recorded(AuthSucceeded(p, FirstOf(found)), FirstOf(found))]
          /\ logs' = addLog("LOGIN_SUCCESS")
     ELSE /\ sess' = [sess EXCEPT ![p] =
               AuthFailed(p, "password", "wrong password")]
          /\ logs' = addLog("LOGIN_FAIL")
  /\ UNCHANGED <<users, rooms, call, ncalls, cv, subMsgs>>

\* registration: await searchUsersByName(username) resolves; newUser is
\* built with id Date.now().toString()
AuthRegister(p) ==
  /\ sess[p].h = "auth_register"
  /\ IF searchUsersByName(sess[p].arg[1]) # {}
     THEN sess' = [sess EXCEPT ![p] =
            AuthFailed(p, "username", "username already in use")]
     ELSE \E id \in ClockIds :
            sess' = [sess EXCEPT ![p].h = "auth_add",
                                 ![p].arg = sess[p].arg \o <<id>>]
  /\ UNCHANGED <<users, rooms, call, ncalls, cv, subMsgs, logs>>

\* registration: await addUser(newUser) resolves (setDoc by the new id)
AuthAdd(p) ==
  /\ sess[p].h = "auth_add"
  /\ LET a == sess[p].arg IN
     /\ users' = [u \in DOMAIN users \cup {a[3]} |->
                   IF u = a[3] THEN AuthUserDoc(a[1], a[2]) ELSE users[u]]
     /\ sess' = [sess EXCEPT ![p] = Recorded(AuthSucceeded(p, a[3]), a[3])]
  /\ logs' = addLog("REGISTER")
  /\ UNCHANGED <<rooms, call, ncalls, cv, subMsgs>>

\* the awaited store call rejects, or withTimeout's timer wins the race:
\* the catch block sets the general error.  A write that timed out may
\* still reach the store.
AuthReject(p) ==
  /\ sess[p].h \in AuthHs
  /\ sess' = [sess EXCEPT ![p] =
       AuthFailed(p, "general", "Database connection timeout.")]
  /\ \/ users' = users
     \/ /\ sess[p].h = "auth_add"
        /\ users' = [u \in DOMAIN users \cup {sess[p].arg[3]} |->
                      IF u = sess[p].arg[3]
                      THEN AuthUserDoc(sess[p].arg[1], sess[p].arg[2])
                      ELSE users[u]]
  /\ UNCHANGED <<rooms, call, ncalls, cv, subMsgs, logs>>

\* the state setters of logout() and the effects after them
LoggedOut(s) ==
  Effects(s, [s EXCEPT !.currentUser = NoId, !.currentRoom = NoRoom,
                       !.luser = NoId, !.authError = NoError])

\* logout(): the button is there whenever a user is logged in, also while
\* a handler of the session awaits the store
Logout(p) ==
  /\ sess[p].currentUser # NoId
  /\ logs' = addLog("LOGOUT")
  /\ sess' = [sess EXCEPT ![p] = LoggedOut(sess[p])]
  /\ UNCHANGED <<users, rooms, call, ncalls, cv, subMsgs>>

\* the recordUserLogin(id) that was started reaches the store:
\* updateDoc patches lastLogin and loginHistory; on a missing record it
\* rejects, which .catch(console.error) swallows
RecordLogin(p) ==
  /\ \E id \in sess[p].rec :
       /\ sess' = [sess EXCEPT ![p].rec = @ \ {id}]
       /\ users' = IF UserExists(id)
                   THEN [users EXCEPT ![id].logins = @ + 1]
                   ELSE users
  /\ UNCHANGED <<rooms, call, ncalls, cv, subMsgs, logs>>

\* the button under the form: switches between login and registration
\* (the mode is an input of AuthSubmit) and clears the error
ToggleMode(p) ==
  /\ sess[p].currentUser = NoId
  /\ sess[p].authError # NoError
  /\ sess' = [sess EXCEPT ![p].authError = NoError]
  /\ UNCHANGED <<users, rooms, call, ncalls, cv, subMsgs, logs>>

(***************************************************************************)
(* SpecAuth: two visitors submit the form, to log in or to register, and   *)
(* log out.  The store holds the record of alice.                          *)
(***************************************************************************)
InitAuth ==
  /\ users = [u \in {"1001"} |-> AuthUserDoc("alice", "pw")]
  /\ rooms = NoRooms
  /\ call = [p \in Procs |-> IdleCall]
  /\ ncalls = 0
  /\ cv = NoCrypto
  /\ subMsgs = <<>>
  /\ sess = NoSessions
  /\ logs = <<>>

NextAuth ==
  \E p \in Procs :
    \/ \E username \in FormUsernames, password \in FormPasswords,
          isLogin \in BOOLEAN : AuthSubmit(p, username, password, isLogin)
    \/ AuthLogin(p)
    \/ AuthRegister(p)
    \/ AuthAdd(p)
    \/ AuthReject(p)
    \/ RecordLogin(p)
    \/ ToggleMode(p)
    \/ Logout(p)

SpecAuth == InitAuth /\ [][NextAuth]_vars

\* a registration found a record with its username
UsernameTaken(p) ==
  sess[p].h = "auth_register" /\ searchUsersByName(sess[p].arg[1]) # {}

\* C15: usernames are unique: in every reachable state, also when two
\* clients register the same username concurrently, at most one stored
\* user record has a given username; a registration for a username that
\* already has a record fails with a username error and creates no record.
C15_UsernamesUnique ==
  [][/\ \A u, v \in DOMAIN users' :
          users'[u].username = users'[v].username => u = v
     /\ \A p \in Procs :
          (UsernameTaken(p) /\ sess'[p].h # "auth_register"
             /\ sess'[p].authError.message # "Database connection timeout.")
          => /\ sess'[p].authError.type = "username"
             /\ sess'[p].currentUser = NoId
             /\ users' = users]_vars

\* a step that ends a submission of p
SubmissionEnds(p) ==
  /\ sess'[p] # sess[p]
  /\ sess'[p].h = "none"
  /\ \/ sess[p].h \in AuthHs
     \/ sess[p].h = "none" /\ ncalls' # ncalls

\* C16: every handleAuth submission ends in exactly one of two outcomes:
\* currentUser set and authError empty, or currentUser null and authError
\* a non-empty typed error (username, password or general); in both
\* isAuthProcessing is false again, also after a thrown store error.
C16_AuthOutcome ==
  [][\A p \in Procs :
       SubmissionEnds(p) =>
         /\ ~sess'[p].isAuthProcessing
         /\ \/ sess'[p].currentUser # NoId /\ sess'[p].authError = NoError
            \/ /\ sess'[p].currentUser = NoId
               /\ sess'[p].authError.type \in {"username", "password", "general"}
               /\ sess'[p].authError.message # ""]_vars

\* a login and a rejected store call have both ended a submission
C16_Witness ==
  \E p, q \in Procs :
    /\ sess[p].currentUser \in DOMAIN users /\ sess[p].h = "none"
    /\ sess[q].currentUser = NoId /\ sess[q].h = "none"
    /\ sess[q].authError.type = "general"
    /\ sess[q].authError.message = "Database connection timeout."

(***************************************************************************)
(* handleJoinRoom(id) and the room listener of the App component.          *)
(***************************************************************************)
\* setCurrentRoom(room) followed by the render: the listener effect is
\* torn down and set up again, with the currentUser of that render, exactly
\* when the room id changes
EnterRoom(s, room) ==
  Effects(s,
    [s EXCEPT !.currentRoom = room,
              !.luser = IF room.id = s.currentRoom.id THEN s.luser
                        ELSE IF room.id = "" THEN NoId ELSE s.currentUser])

\* handleJoinRoom up to await joinRoom(targetId, currentUser.id, isAdmin)
JoinBegin(p, r) ==
  /\ sess[p].currentUser # NoId /\ sess[p].h = "none"
  /\ CanStart(p)
  /\ call' = [call EXCEPT ![p] =
       [IdleCall EXCEPT !.op = "joinRoom", !.pc = "join_read", !.room = r,
                        !.user = sess[p].currentUser,
                        !.flag = (sess[p].currentUser = AdminId)]]
  /\ ncalls' = ncalls + 1
  /\ sess' = [sess EXCEPT ![p].h = "join", ![p].hroom = r]
  /\ UNCHANGED <<users, rooms, cv, subMsgs, logs>>

\* handleJoinRoom after the await: on success the log record and the stub
\* { id: targetId } as current room, otherwise the alert; a rejected call
\* ends the handler (it has no catch)
JoinDone(p) ==
  /\ sess[p].h = "join"
  /\ call[p].pc \in {"done", "thrown"}
  /\ LET s == [sess[p] EXCEPT !.h = "none", !.hroom = ""] IN
     IF call[p].pc = "done" /\ call[p].res = "success"
     THEN /\ logs' = addLog("ROOM_JOIN")
          /\ sess' = [sess EXCEPT ![p] =
               EnterRoom(s, [id |-> sess[p].hroom, doc |-> <<>>])]
     ELSE /\ logs' = logs
          /\ sess' = [sess EXCEPT ![p] =
               IF call[p].pc = "done" THEN [s EXCEPT !.notice = call[p].res]
               ELSE s]
  /\ call' = [call EXCEPT ![p] = IdleCall]
  /\ UNCHANGED <<users, rooms, ncalls, cv, subMsgs>>

SnapshotNoticeKickFirst(r, u) ==
  IF ~RoomExists(r) THEN "Room closed or unavailable."
  ELSE IF u # NoId /\ u \notin rooms[r].participants /\ u # AdminId
    THEN "You have been kicked."
  ELSE IF u # NoId /\ u \in rooms[r].bannedUsers /\ u # AdminId
    THEN "You have been banned."
  ELSE ""

\* what the listener callback does with a snapshot of room r, for the
\* captured user u: the notice it alerts, "" when it installs the snapshot
SnapshotNotice(r, u) ==
  IF ~RoomExists(r) THEN "Room closed or unavailable."
  ELSE IF u # NoId /\ u \in rooms[r].bannedUsers /\ u # AdminId
    THEN "You have been banned."
  ELSE IF u # NoId /\ u \notin rooms[r].participants /\ u # AdminId
    THEN "You have been kicked."
  ELSE ""

\* the listener of the current room delivers the room document
RoomSnapshot(p) ==
  /\ sess[p].currentRoom.id # ""
  /\ LET r == sess[p].currentRoom.id
         n == SnapshotNotice(r, sess[p].luser) IN
     sess' = [sess EXCEPT ![p] =
       IF n # "" THEN [EnterRoom(sess[p], NoRoom) EXCEPT !.notice = n]
       ELSE EnterRoom(sess[p], [id |-> r, doc |-> <<rooms[r]>>])]
  /\ sess' # sess
  /\ UNCHANGED <<users, rooms, call, ncalls, cv, subMsgs, logs>>

\* the room document is deleted in the backend (no function of the client
\* deletes a room; listenToRoom provides for it)
RoomRemoved(r) ==
  /\ RoomExists(r)
  /\ rooms' = [x \in DOMAIN rooms \ {r} |-> rooms[x]]
  /\ UNCHANGED <<users, call, ncalls, cv, subMsgs, sess, logs>>

(***************************************************************************)
(* SpecWatch: alice's client joins the group room, logs out and in, and    *)
(* receives the room's snapshots while the administrator kicks or bans     *)
(* alice and the room may be removed.                                      *)
(***************************************************************************)
InitWatch ==
  /\ users = [u \in {"1001"} |-> AuthUserDoc("alice", "pw")]
  /\ \E inside \in BOOLEAN :
       /\ rooms = [r \in {GroupRoomId} |->
            RoomDoc("group", IF inside THEN {"1001"} ELSE {})]
       /\ sess = [p \in Procs |->
            Settled(
              IF p = "c2" THEN [AnonSession EXCEPT !.currentUser = AdminId]
              ELSE IF inside
                THEN [AnonSession EXCEPT
                        !.currentUser = "1001", !.luser = "1001",
                        !.currentRoom = [id |-> GroupRoomId,
                                         doc |-> <<rooms[GroupRoomId]>>]]
              ELSE [AnonSession EXCEPT !.currentUser = "1001"])]
  /\ call = [p \in Procs |-> IdleCall]
  /\ ncalls = 0
  /\ cv = NoCrypto
  /\ subMsgs = <<>>
  /\ logs = <<>>

NextWatch ==
  \/ \E p \in Procs :
       \/ sess[p].currentUser # AdminId /\ JoinBegin(p, GroupRoomId)
       \/ JoinRead(p)
       \/ JoinWrite(p)
       \/ JoinDone(p)
       \/ RoomSnapshot(p)
       \/ Logout(p)
       \/ AuthSubmit(p, "alice", "pw", TRUE)
       \/ AuthLogin(p)
       \/ RecordLogin(p)
       \/ /\ sess[p].currentUser = AdminId
          /\ \E cmd \in {"/kick", "/ban"} :
               StartExec(p, GroupRoomId, cmd, "alice")
       \/ ExecSearch(p)
       \/ ExecRead(p)
       \/ ExecWrite(p)
  \/ RoomRemoved(GroupRoomId)

SpecWatch == InitWatch /\ [][NextWatch]_vars

\* a step in which the room listener of p has delivered a snapshot
Delivered(p) ==
  /\ sess[p].currentRoom.id # ""
  /\ sess'[p].currentRoom # sess[p].currentRoom
  /\ sess'[p].currentUser = sess[p].currentUser
  /\ sess'[p].h = sess[p].h

\* the snapshot of the current room of p evicts the user of the session
Evicting(p) ==
  LET r == sess[p].currentRoom.id IN
    \/ ~RoomExists(r)
    \/ sess[p].currentUser \in rooms[r].bannedUsers
    \/ sess[p].currentUser \notin rooms[r].participants

\* C17: while a non-admin session is in a room, every room snapshot in
\* which the session's user is banned or is not a participant, and every
\* snapshot reporting the room absent, sets currentRoom to null; the
\* snapshot is not installed as the current room.
C17_EvictingSnapshotClearsRoom ==
  [][\A p \in Procs :
       (/\ sess[p].currentUser \notin {NoId, AdminId}
        /\ Delivered(p)
        /\ Evicting(p))
       => sess'[p].currentRoom = NoRoom]_vars

(***************************************************************************)
(* handleSendMessage(file), without a file.  The input text is a sequence  *)
(* of tokens: words and single spaces.  App.tsx seals message contents     *)
(* with a synchronous encryptMessage of ./utils/security, which is not     *)
(* among the sources (the module there is asynchronous); it is modelled    *)
(* from the specification as an opaque seal of the text.                   *)
(***************************************************************************)
encryptMessageSync(text) == <<"sealed", text>>

\* !inputText.trim()
IsBlank(text) == \A i \in 1..Len(text) : text[i] = " "

\* inputText.startsWith('/'): the words that begin with '/' are the commands
StartsWithSlash(text) == text # <<>> /\ text[1] \in Commands

\* prompt.toLowerCase().includes('@ai')
HasAiMarker(text) == \E i \in 1..Len(text) : text[i] \in {"@ai", "@AI", "@Ai"}

\* inputText.split(' '): the parts between the spaces, empty parts included
RECURSIVE SplitSpace(_)
SplitSpace(text) ==
  IF \A i \in 1..Len(text) : text[i] # " " THEN <<text>>
  ELSE LET k == CHOOSE i \in 1..Len(text) :
                  text[i] = " " /\ \A j \in 1..(i - 1) : text[j] # " " IN
       <<SubSeq(text, 1, k - 1)>> \o SplitSpace(SubSeq(text, k + 1, Len(text)))

\* the string a part stands for
RECURSIVE Word(_)
Word(part) == IF part = <<>> THEN "" ELSE part[1] \o Word(Tail(part))

\* parts[n] of the split, undefined and '' both being falsy
PartAt(text, n) ==
  IF Len(SplitSpace(text)) >= n THEN Word(SplitSpace(text)[n]) ELSE ""

\* currentUser.username and currentUser.role === UserRole.ADMIN
SessionName(u) == IF u = AdminId THEN ADMIN_USERNAME ELSE users[u].username
IsAdmin(u) == u = AdminId

\* a message as handleSendMessage builds it
ChatMsg(id, sender, senderName, content) ==
  [id |-> id, sender |-> sender, senderName |-> senderName, readBy |-> {},
   content |-> encryptMessageSync(content)]

\* Date.now().toString() of a message built by client p: no two messages
\* are built at the same time by the same client
MsgId(p) == <<p, ncalls>>

\* currentRoom.mutedUsers?.includes(currentUser.id): undefined on the stub
MutedInSnapshot(s) ==
  s.currentRoom.doc # <<>> /\ s.currentUser \in s.currentRoom.doc[1].mutedUsers

SendPlanNoMuteCheck(s, text) ==
  IF StartsWithSlash(text) /\ IsAdmin(s.currentUser) /\ PartAt(text, 2) # ""
    THEN "command"
  ELSE "message"

\* the way handleSendMessage takes after its early return:
\* blocked by the mute, dispatched as a command, or sent as a message
SendPlan(s, text) ==
  IF MutedInSnapshot(s) /\ ~IsAdmin(s.currentUser) THEN "blocked"
  ELSE IF StartsWithSlash(text) /\ IsAdmin(s.currentUser) /\ PartAt(text, 2) # ""
    THEN "command"
  ELSE "message"

\* the call record of addMessageToRoom(r, m) as the handler starts it
AddCall(r, m) ==
  [IdleCall EXCEPT !.op = "addMessageToRoom", !.pc = "add_write",
                   !.room = r, !.snapM = <<m>>]

\* handleSendMessage up to its first await
SendBegin(p, text) ==
  /\ sess[p].h = "none"
  /\ sess[p].currentUser # NoId /\ sess[p].currentRoom.id # ""
  /\ ~IsBlank(text)
  /\ LET s == sess[p]
         r == s.currentRoom.id
         plan == SendPlan(s, text)
         userMsg == ChatMsg(MsgId(p), "user", SessionName(s.currentUser), text)
     IN
     IF plan = "blocked"
     THEN /\ sess' = [sess EXCEPT ![p].notice =
                        "TRANSMISSION BLOCKED: You are muted."]
          /\ UNCHANGED <<call, ncalls>>
     ELSE /\ CanStart(p)
          /\ ncalls' = ncalls + 1
          /\ IF plan = "command"
             THEN /\ call' = [call EXCEPT ![p] =
                       [IdleCall EXCEPT !.op = "executeCommand",
                                        !.pc = "exec_search", !.room = r,
                                        !.cmd = PartAt(text, 1),
                                        !.res = PartAt(text, 2)]]
                  /\ sess' = [sess EXCEPT ![p].h = "cmd", ![p].hroom = r,
                                          ![p].arg = <<text>>]
             ELSE /\ call' = [call EXCEPT ![p] = AddCall(r, userMsg)]
                  /\ sess' = [sess EXCEPT ![p].h = "msg", ![p].hroom = r,
                                          ![p].arg = <<text>>,
                                          ![p].msg = <<userMsg>>]
  /\ UNCHANGED <<users, rooms, cv, subMsgs, logs>>

\* the handler is over: its locals are dead
EndHandler(s) == [s EXCEPT !.h = "none", !.hroom = "", !.arg = <<>>, !.msg = <<>>]

\* executeCommand has returned its result: the confirmation is built and
\* addMessageToRoom started; a rejected executeCommand ends the handler
\* (this part is outside the try block)
SendExecDone(p) ==
  /\ sess[p].h = "cmd"
  /\ call[p].pc \in {"done", "thrown"}
  /\ IF call[p].pc = "done"
     THEN LET sysMsg == ChatMsg(MsgId(p), "system", "",
                                <<"ADMIN CMD: ", call[p].res>>) IN
          /\ ncalls < MaxCalls
          /\ ncalls' = ncalls + 1
          /\ call' = [call EXCEPT ![p] = AddCall(sess[p].hroom, sysMsg)]
          /\ sess' = [sess EXCEPT ![p].h = "cmd_msg", ![p].msg = <<sysMsg>>]
     ELSE /\ call' = [call EXCEPT ![p] = IdleCall]
          /\ sess' = [sess EXCEPT ![p] = EndHandler(sess[p])]
          /\ ncalls' = ncalls
  /\ UNCHANGED <<users, rooms, cv, subMsgs, logs>>

\* the handler starts addMessageToRoom for message m and awaits it at h
AwaitAdd(p, h, m) ==
  /\ ncalls < MaxCalls
  /\ ncalls' = ncalls + 1
  /\ call' = [call EXCEPT ![p] = AddCall(sess[p].hroom, m)]
  /\ sess' = [sess EXCEPT ![p].h = h, ![p].msg = @ \o <<m>>]

\* the outer catch block: alert("Failed to send message: ...")
SendFailed(p) ==
  /\ call' = [call EXCEPT ![p] = IdleCall]
  /\ sess' = [sess EXCEPT ![p] =
       [EndHandler(sess[p]) EXCEPT !.notice = "Failed to send message"]]
  /\ ncalls' = ncalls

SendOver(p) ==
  /\ call' = [call EXCEPT ![p] = IdleCall]
  /\ sess' = [sess EXCEPT ![p] = EndHandler(sess[p])]
  /\ ncalls' = ncalls

\* await addMessageToRoom(currentRoom.id, userMsg) is over: the log
\* record, then the test for the assistant marker and the API key
SendUserDone(p) ==
  /\ sess[p].h = "msg"
  /\ call[p].pc \in {"done", "thrown"}
  /\ IF call[p].pc = "thrown"
     THEN SendFailed(p) /\ logs' = logs
     ELSE /\ logs' = addLog("MESSAGE_SENT")
          /\ IF ~HasAiMarker(sess[p].arg[1]) THEN SendOver(p)
             ELSE IF ~sess[p].apiKey
               THEN AwaitAdd(p, "nokey_msg",
                      ChatMsg(MsgId(p), "system", "",
                        <<"SYSTEM: AI capabilities unavailable (Missing API Key).">>))
             ELSE /\ sess' = [sess EXCEPT ![p].h = "generate"]
                  /\ UNCHANGED <<call, ncalls>>
  /\ UNCHANGED <<users, rooms, cv, subMsgs>>

GenerateOutcomeNoCatch(ok) == IF ok THEN "ai_msg" ELSE "none"

\* where the handler goes when generateContent resolves (ok) or rejects:
\* to the append of the reply, or into the catch block
GenerateOutcome(ok) == IF ok THEN "ai_msg" ELSE "err_msg"

\* await ai.models.generateContent(...) is over
Generate(p) ==
  /\ sess[p].h = "generate"
  /\ \E ok \in BOOLEAN :
       LET next == GenerateOutcome(ok) IN
       IF next = "ai_msg"
         THEN AwaitAdd(p, next, ChatMsg(MsgId(p), "ai", "AI_TERMINAL", <<"reply">>))
       ELSE IF next = "err_msg"
         THEN AwaitAdd(p, next,
                ChatMsg(MsgId(p), "system", "", <<"Error: ", "generation failed">>))
       ELSE SendOver(p)
  /\ UNCHANGED <<users, rooms, cv, subMsgs, logs>>

\* an addMessageToRoom after the user's message is over
SendFurtherDone(p) ==
  /\ sess[p].h \in {"cmd_msg", "nokey_msg", "ai_msg", "err_msg"}
  /\ call[p].pc \in {"done", "thrown"}
  /\ IF call[p].pc = "done"
     THEN /\ SendOver(p)
          /\ logs' = IF sess[p].h = "err_msg" THEN addLog("API_ERROR") ELSE logs
     ELSE /\ logs' = logs
          /\ IF sess[p].h = "ai_msg"
             THEN AwaitAdd(p, "err_msg",
                    ChatMsg(MsgId(p), "system", "", <<"Error: ", "not-found">>))
             ELSE IF sess[p].h = "cmd_msg" THEN SendOver(p)
             ELSE SendFailed(p)
  /\ UNCHANGED <<users, rooms, cv, subMsgs>>

(***************************************************************************)
(* SpecSend: alice (c1) and the administrator (c2) are in the group room   *)
(* and send texts and commands.  alice's client holds the join stub or a   *)
(* snapshot of the room; the build has an API key or none.  The            *)
(* administrator's session is put into the room as the input of            *)
(* handleSendMessage's command branch; no step reads its copy of the room, *)
(* which stays the stub.                                                   *)
(***************************************************************************)
\* what is typed: by alice a text for the assistant, by the administrator
\* commands with a target, without one and with two spaces before it
SendInputs(u) ==
  IF IsAdmin(u)
    THEN {<<"/ban">>, <<"/mute", " ", "alice">>, <<"/ban", " ", " ", "alice">>}
  ELSE {<<"hi", " ", "@AI">>}

InitSend ==
  /\ users = [u \in {"1001"} |-> AuthUserDoc("alice", "pw")]
  /\ \E muted \in SUBSET {"1001"}, key, stub \in BOOLEAN :
       /\ rooms = [r \in {GroupRoomId} |->
            [RoomDoc("group", {"1001"}) EXCEPT !.mutedUsers = muted]]
       /\ sess = [p \in Procs |->
            Settled([AnonSession EXCEPT
               !.currentUser = IF p = "c2" THEN AdminId ELSE "1001",
               !.luser = IF p = "c2" THEN AdminId ELSE "1001",
               !.apiKey = key,
               !.currentRoom =
                  [id |-> GroupRoomId,
                   doc |-> IF stub THEN <<>> ELSE <<rooms[GroupRoomId]>>]])]
  /\ call = [p \in Procs |-> IdleCall]
  /\ ncalls = 0
  /\ cv = NoCrypto
  /\ subMsgs = <<>>
  /\ logs = <<>>

NextSend ==
  \E p \in Procs :
    \/ \E text \in SendInputs(sess[p].currentUser) : SendBegin(p, text)
    \/ ExecSearch(p)
    \/ ExecRead(p)
    \/ ExecWrite(p)
    \/ SendExecDone(p)
    \/ AddWrite(p)
    \/ SendUserDone(p)
    \/ Generate(p)
    \/ SendFurtherDone(p)
    \/ ~IsAdmin(sess[p].currentUser) /\ RoomSnapshot(p)

SpecSend == InitSend /\ [][NextSend]_vars

\* the messages of room r
MessagesOf(r) == IF RoomExists(r) THEN Range(rooms[r].messages) ELSE {}

\* C18: handleSendMessage by a non-admin user whose current room snapshot
\* lists them in mutedUsers performs no store write at all: it starts no
\* store call, no message is appended to the room and no log record is
\* added.
C18_MutedSendWritesNothing ==
  [][\A p \in Procs :
       (/\ sess[p].h = "none"
        /\ sess[p].currentUser \notin {NoId, AdminId}
        /\ sess[p].currentRoom.id # ""
        /\ MutedInSnapshot(sess[p]))
       => /\ sess'[p].h = "none"
          /\ call'[p] = call[p]
          /\ sess'[p].notice # sess[p].notice => rooms' = rooms /\ logs' = logs]_vars

\* a muted user has tried to send and was told so
C18_Witness ==
  \E p \in Procs :
    /\ sess[p].currentUser \notin {NoId, AdminId}
    /\ MutedInSnapshot(sess[p])
    /\ sess[p].notice = "TRANSMISSION BLOCKED: You are muted."

\* the text a message carries
TextOf(m) == m.content[2]

Further(p) ==
  {m \in MessagesOf(sess[p].hroom) :
     m.id[1] = p /\ m.id[2] > sess[p].msg[1].id[2]}

OtherRoomId == "7654321"

\* the user listener delivers: with a record setCurrentUser(updatedUser),
\* which keeps the id; without one logout()
UserSnapshot(p) ==
  /\ \E x \in sess[p].subs : x.kind = "user" /\ ~UserExists(x.key)
  /\ logs' = IF sess[p].currentUser # NoId THEN addLog("LOGOUT") ELSE logs
  /\ sess' = [sess EXCEPT ![p] = LoggedOut(sess[p])]
  /\ UNCHANGED <<users, rooms, call, ncalls, cv, subMsgs>>

\* the user record is deleted in the backend (no function of the client
\* deletes a user; the user listener provides for it)
UserRemoved(u) ==
  /\ UserExists(u)
  /\ users' = [x \in DOMAIN users \ {u} |-> users[x]]
  /\ UNCHANGED <<rooms, call, ncalls, cv, subMsgs, sess, logs>>

Logins == {<<"alice", "pw">>, <<ADMIN_USERNAME, ADMIN_PASSWORD>>}

InitSession ==
  /\ users = [u \in {"1001"} |-> AuthUserDoc("alice", "pw")]
  /\ rooms = [r \in {GroupRoomId, OtherRoomId} |->
       RoomDoc("group", IF r = GroupRoomId THEN {"1001"} ELSE {})]
  /\ sess = [p \in Procs |->
       IF p = "c1" THEN Settled([AnonSession EXCEPT !.currentUser = "1001"])
       ELSE AnonSession]
  /\ call = [p \in Procs |-> IdleCall]
  /\ ncalls = 0
  /\ cv = NoCrypto
  /\ subMsgs = <<>>
  /\ logs = <<>>

NextSession ==
  \/ \E p \in Procs :
       \/ \E l \in Logins : AuthSubmit(p, l[1], l[2], TRUE)
       \/ AuthLogin(p)
       \/ RecordLogin(p)
       \/ /\ sess[p].currentUser # AdminId
          /\ \E r \in {GroupRoomId, OtherRoomId} : JoinBegin(p, r)
       \/ JoinRead(p)
       \/ JoinWrite(p)
       \/ JoinDone(p)
       \/ RoomSnapshot(p)
       \/ UserSnapshot(p)
       \/ Logout(p)
  \/ UserRemoved("1001")

SpecSession == InitSession /\ [][NextSession]_vars

\* the room subscriptions session state s holds
RoomSubs(s) == {x \in s.subs : x.kind = "room"}

\* C21: in every reachable state a session holds at most one active room
\* subscription and it is for the current room's id (switching rooms
\* disposes the previous one); after logout the session holds no active
\* user, room or room-list subscription.
C21_Subscriptions ==
  \A p \in Procs :
    /\ Cardinality(RoomSubs(sess[p])) <= 1
    /\ \A x \in RoomSubs(sess[p]) : x.key = sess[p].currentRoom.id
    /\ sess[p].currentUser = NoId => sess[p].subs = {}

\* C22: a login with the administrative username and password creates the
\* session without a store lookup and without a write of a user record;
\* the session never registers a user subscription (so the missing record
\* of 'admin-root' never logs it out) and recordUserLogin is never applied
\* to that id.
C22_AdminSessionSynthetic ==
  /\ [](\A p \in Procs :
         /\ AdminId \notin sess[p].rec
         /\ sess[p].currentUser = AdminId
            => \A x \in sess[p].subs : x.kind # "user")
  /\ [][\A p \in Procs :
         (sess[p].currentUser # AdminId /\ sess'[p].currentUser = AdminId)
         => /\ sess[p].h = "none" /\ sess'[p].h = "none"
            /\ users' = users
            /\ call' = call]_vars

\* the administrator is logged in while the store has no record of the id
C22_Witness ==
  \E p \in Procs :
    /\ sess[p].currentUser = AdminId
    /\ ~UserExists(AdminId)
    /\ sess[p].subs = {Sub("rooms", "")}

(***************************************************************************)
(* listenToMessages(roomId, callback) on the sub-collection                *)
(* rooms/{roomId}/messages (unnamed/part_000, unnamed/part_001), and       *)
(* SpecListen: one client listens while another adds messages whose        *)
(* timestamps are later or, from a slow clock, earlier than all stored.    *)
(* The documents of this specification carry their timestamp; the          *)
(* collection has no order of its own.                                     *)
(***************************************************************************)
messageLimit == 200

TimedMessage(t) ==
  [id |-> ToString(t), sender |-> "user", senderName |-> "alice",
   readBy |-> {}, timestamp |-> t]

\* orderBy("timestamp", "asc")
\* (ties between equal timestamps are not drawn)
OrderByTimestamp(docs) ==
  LET before == [x \in docs |->
                   Cardinality({y \in docs : y.timestamp < x.timestamp})]
  IN [i \in 1..Cardinality(docs) |-> CHOOSE x \in docs : before[x] = i - 1]

\* limit(n): the first n documents of the ordered result
Limit(seq, n) == SubSeq(seq, 1, IF Len(seq) < n THEN Len(seq) ELSE n)

\* the messages the query of listenToMessages yields
MessagesQuery(docs) == Limit(OrderByTimestamp(docs), messageLimit)

\* onSnapshot calls back with the documents of the query
Deliver(p) ==
  /\ call[p].op = "listenToMessages"
  /\ call' = [call EXCEPT ![p].snapM = MessagesQuery(Range(subMsgs))]
  /\ call' # call
  /\ UNCHANGED <<users, rooms, ncalls, cv, subMsgs, sess, logs>>

\* addMessageToRoom(roomId, message) of this variant: setDoc by message.id
AddDocument(p, m) ==
  /\ CanStart(p)
  /\ ncalls' = ncalls + 1
  /\ call' = [call EXCEPT ![p] =
       [IdleCall EXCEPT !.op = "addMessageToRoom", !.pc = "done",
                        !.room = GroupRoomId, !.flag = TRUE, !.res = "sent"]]
  /\ subMsgs' = IF \E i \in 1..Len(subMsgs) : subMsgs[i].id = m.id
                THEN [i \in 1..Len(subMsgs) |->
                        IF subMsgs[i].id = m.id THEN m ELSE subMsgs[i]]
                ELSE Append(subMsgs, m)
  /\ UNCHANGED <<users, rooms, cv, sess, logs>>

Timestamps(seq) == {seq[i].timestamp : i \in 1..Len(seq)}
Latest(seq) == CHOOSE t \in Timestamps(seq) : \A u \in Timestamps(seq) : u <= t
Earliest(seq) == CHOOSE t \in Timestamps(seq) : \A u \in Timestamps(seq) : t <= u

\* the first timestamp of the initial lists
FirstStamp == 10

InitListen ==
  /\ users = RegisteredUsers
  /\ rooms = [r \in {GroupRoomId} |-> RoomDoc("group", UserIds)]
  /\ \E n \in {1, 2, messageLimit - 1, messageLimit} :
       subMsgs = [i \in 1..n |-> TimedMessage(FirstStamp + n - i)]
  /\ call = [p \in Procs |->
       IF p = "c1"
       THEN [IdleCall EXCEPT !.op = "listenToMessages", !.pc = "listening",
                             !.room = GroupRoomId]
       ELSE IdleCall]
  /\ ncalls = 0
  /\ cv = NoCrypto
  /\ sess = NoSessions
  /\ logs = <<>>

NextListen ==
  \/ Deliver("c1")
  \/ AddDocument("c2", TimedMessage(Latest(subMsgs) + 1))
  \/ AddDocument("c2", TimedMessage(Earliest(subMsgs) - 1))

SpecListen == InitListen /\ [][NextListen]_vars

\* the n documents with the greatest timestamps, in ascending order
MostRecent(docs, n) ==
  LET o == OrderByTimestamp(docs) IN
  SubSeq(o, IF Len(o) > n THEN Len(o) - n + 1 ELSE 1, Len(o))

\* C23: listenToMessages delivers, on every change, the room's messages in
\* ascending timestamp order capped to the most recent 200: when the room
\* holds more than 200 messages, the delivered sequence is the 200 with the
\* greatest timestamps.
C23_DeliversMostRecent ==
  [][\A p \in Procs :
       (call[p].op = "listenToMessages" /\ call'[p].snapM # call[p].snapM)
       => call'[p].snapM = MostRecent(Range(subMsgs), messageLimit)]_vars

(***************************************************************************)
(* Frame and idempotence of the moderation commands.                       *)
(***************************************************************************)
\* the three sets of a room
Sets(room) == <<room.participants, room.bannedUsers, room.mutedUsers>>

\* the room is in the state the command at pc aims at for target
InTargetState(room, pc, target) ==
  IF pc = "kick_write" THEN target \notin room.participants
  ELSE IF pc = "ban_write"
    THEN target \notin room.participants /\ target \in room.bannedUsers
  ELSE target \in room.mutedUsers

\* C24: '/kick' changes only participants (the target is removed,
\* bannedUsers and mutedUsers are unchanged), '/mute' changes only
\* mutedUsers (the target is added, participants and bannedUsers are
\* unchanged); each of /kick, /ban and /mute applied to a room already in
\* its target state leaves the room's three sets unchanged.
C24_CommandFrameIdempotent ==
  [][\A p \in Procs :
       (call[p].pc \in {"kick_write", "ban_write", "mute_write"}
          /\ call'[p].pc = "done")
       => LET old == rooms[call[p].room]
              new == rooms'[call[p].room]
              t == call[p].other IN
          /\ call[p].pc = "kick_write"
             => /\ new.bannedUsers = old.bannedUsers
                /\ new.mutedUsers = old.mutedUsers
                /\ t \notin new.participants
          /\ call[p].pc = "mute_write"
             => /\ new.participants = old.participants
                /\ new.bannedUsers = old.bannedUsers
                /\ t \in new.mutedUsers
          /\ InTargetState(old, call[p].pc, t) => Sets(new) = Sets(old)]_vars

(***************************************************************************)
(* joinRoom against a moderation command aimed at someone else.            *)
(***************************************************************************)
\* the call of q is a joinRoom on room r that has returned success
JoinedOk(q, r) ==
  /\ call[q].op = "joinRoom"
  /\ call[q].pc = "done"
  /\ call[q].room = r
  /\ call[q].res = "success"

\* C27: a successful joinRoom(R, V) is never undone by a '/kick' or '/ban'
\* aimed at a different user U: the write of the command keeps every
\* participant V # U whose joinRoom has returned success, and a joinRoom
\* that returns success ends with V in participants.
C27_JoinSurvivesModeration ==
  [][\A p \in Procs :
       /\ (call[p].pc \in {"kick_write", "ban_write"} /\ call'[p].pc = "done")
          => \A q \in Procs \ {p} :
               (/\ JoinedOk(q, call[p].room)
                /\ call[q].user # call[p].other
                /\ call[q].user \in rooms[call[p].room].participants)
               => call[q].user \in rooms'[call[p].room].participants
       /\ (call[p].op = "joinRoom" /\ call[p].pc # "done"
             /\ call'[p].pc = "done" /\ call'[p].res = "success")
          => call[p].user \in rooms'[call[p].room].participants]_vars

(***************************************************************************)
(* SpecExec: joinRoom and executeCommand on a room that may be missing.    *)
(* The group room id names a room that exists, of either type, with the    *)
(* participants and bans that earlier joins and commands produce; no room  *)
(* has the other id.  joinRoom takes any id and any isAdmin flag.          *)
(***************************************************************************)
InitExec ==
  /\ users = RegisteredUsers
  /\ \E type \in {"group", "private"}, ps \in SUBSET {"1002"},
        bs \in SUBSET {"1001"} :
       rooms = [r \in {GroupRoomId} |->
                  [RoomDoc(type, ps) EXCEPT !.bannedUsers = bs]]
  /\ call = [p \in Procs |-> IdleCall]
  /\ ncalls = 0
  /\ cv = NoCrypto
  /\ subMsgs = <<>>
  /\ sess = NoSessions
  /\ logs = <<>>

NextExec ==
  \E p \in Procs :
    \/ \E u \in AllIds, adm \in BOOLEAN : StartJoin(p, GroupRoomId, u, adm)
    \/ \E r \in {GroupRoomId, OtherRoomId}, cmd \in Commands,
          name \in {"bob", "ghost"} : StartExec(p, r, cmd, name)
    \/ JoinRead(p)
    \/ JoinWrite(p)
    \/ ExecSearch(p)
    \/ ExecRead(p)
    \/ ExecWrite(p)

SpecExec == InitExec /\ [][NextExec]_vars

\* the call of p is an executeCommand that must fail: no stored user has
\* the target name, the room is missing, or the command is unknown
ExecMustFail(p) ==
  \/ call[p].pc = "exec_search" /\ searchUsersByName(call[p].res) = {}
  \/ call[p].pc = "exec_read" /\ ~RoomExists(call[p].room)
  \/ call[p].pc = "exec_read"
       /\ call[p].cmd \notin {"/kick", "/ban", "/mute"}

\* C25: executeCommand with a target username that matches no stored user,
\* with a room id that does not exist, or with a command other than /kick,
\* /ban, /mute returns an error text, writes nothing on the way, and never
\* gets to a write.
C25_ExecErrorsChangeNothing ==
  /\ [](\A p \in Procs :
          call[p].pc \in {"kick_write", "ban_write", "mute_write"}
          => /\ call[p].cmd \in {"/kick", "/ban", "/mute"}
             /\ call[p].other \in DOMAIN users)
  /\ [][\A p \in Procs :
          (ExecMustFail(p) /\ call'[p] # call[p])
          => /\ call'[p].pc = "done"
             /\ call'[p].res \in {"User not found", "Room error",
                                  "Unknown command"}
             /\ rooms' = rooms
             /\ users' = users]_vars

C25_Witness ==
  \E p, q \in Procs :
    /\ call[p].op = "executeCommand" /\ call[p].pc = "done"
    /\ call[p].res = "Room error"
    /\ call[q].op = "executeCommand" /\ call[q].pc = "done"
    /\ call[q].res = "Unknown command"

\* C30: joinRoom with isAdmin = true on an existing room succeeds for every
\* user id, banned or not, private room or not: its read never ends in an
\* error, and the call ends with success, the id in participants and
\* bannedUsers and mutedUsers as they were.
C30_AdminJoinAlwaysSucceeds ==
  [][\A p \in Procs :
       (/\ call[p].op = "joinRoom"
        /\ call[p].flag
        /\ call[p].pc \in {"join_read", "join_write"}
        /\ RoomExists(call[p].room)
        /\ call'[p] # call[p])
       => LET old == rooms[call[p].room]
              new == rooms'[call[p].room] IN
          /\ new.bannedUsers = old.bannedUsers
          /\ new.mutedUsers = old.mutedUsers
          /\ \/ call'[p].pc = "join_write" /\ new = old
             \/ /\ call'[p].pc = "done"
                /\ call'[p].res = "success"
                /\ call[p].user \in new.participants]_vars

C30_Witness ==
  \E p \in Procs :
    /\ call[p].op = "joinRoom" /\ call[p].pc = "done"
    /\ call[p].flag
    /\ call[p].res = "success"
    /\ rooms[call[p].room].type = "private"
    /\ call[p].user \in rooms[call[p].room].bannedUsers
    /\ call[p].user \in rooms[call[p].room].participants

(***************************************************************************)
(* sendFriendRequest against a handleFriendRequest of another requester.   *)
(***************************************************************************)
\* the call of q is a sendFriendRequest to user u that has succeeded
RequestSent(q, u) ==
  /\ call[q].op = "sendFriendRequest"
  /\ call[q].pc = "done"
  /\ call[q].other = u
  /\ call[q].res = "Request sent"

\* C26: a friend request is never lost to a concurrent resolve: the write
\* of handleFriendRequest(U, A, _) keeps every pending request of a sender
\* C # A whose sendFriendRequest to U has succeeded, and a sendFriendRequest
\* that succeeds ends with its sender in the target's friendRequests.
C26_RequestSurvivesResolve ==
  [][\A p \in Procs :
       /\ (call[p].pc = "h_requests" /\ call'[p] # call[p])
          => \A q \in Procs \ {p} :
               (/\ RequestSent(q, call[p].user)
                /\ call[q].user # call[p].other
                /\ call[q].user \in users[call[p].user].friendRequests)
               => call[q].user \in users'[call[p].user].friendRequests
       /\ (call[p].pc = "send_write" /\ call'[p].pc = "done")
          => call[p].user \in users'[call[p].other].friendRequests]_vars

(***************************************************************************)
(* SpecBatch: one reader runs the batched markMessagesAsRead again and     *)
(* again, each run on the refreshed list, until nothing qualifies; the     *)
(* store accepts every commit.  The lists of the initial state are the     *)
(* short lists, a list of maxBatch + 1 unread messages and a list of       *)
(* maxBatch + 2 messages whose second one is a system message.             *)
(***************************************************************************)
MixedList ==
  [i \in 1..(maxBatch + 2) |->
     IF i = 2 THEN Message(ToString(i), "system", "")
     ELSE Message(ToString(i), "user", "alice")]

InitBatch ==
  /\ users = RegisteredUsers
  /\ rooms = [r \in {GroupRoomId} |-> RoomDoc("group", UserIds)]
  /\ subMsgs \in ShortLists \cup {LongList, MixedList}
  /\ call = [p \in Procs |-> IdleCall]
  /\ ncalls = 0
  /\ cv = NoCrypto
  /\ sess = NoSessions
  /\ logs = <<>>

\* the next invocation of the same reader
RepeatMarkBatch(p) ==
  \E u \in AllIds :
    /\ call[p].op = "markMessagesAsRead" => call[p].user = u
    /\ StartMarkBatch(p, u)

NextBatch ==
  \/ RepeatMarkBatch("c1")
  \/ BatchCommit("c1")

SpecBatch == InitBatch /\ [][NextBatch]_vars /\ WF_vars(NextBatch)

\* positions whose message differs between this state and the next
ChangedAt == {i \in 1..Len(subMsgs) : subMsgs'[i] # subMsgs[i]}

MarkEnds(p) ==
  /\ call'[p].op = "markMessagesAsRead"
  /\ call'[p].pc = "done"
  /\ call'[p] # call[p]

\* the list of the storage service the run of p works on, before and after
\* its last step
ListBefore(p) ==
  IF call'[p].flag THEN subMsgs ELSE rooms[call'[p].room].messages
ListAfter(p) ==
  IF call'[p].flag THEN subMsgs' ELSE rooms'[call'[p].room].messages

\* message m with the reader added to readBy
MarkedBy(m, reader) == [m EXCEPT !.readBy = @ \cup {reader}]

InvoluntaryExit(p) ==
  /\ sess[p].currentRoom.id # ""
  /\ sess'[p].currentRoom.id = ""
  /\ sess'[p].currentUser = sess[p].currentUser

\* C31: the notice shown on an involuntary exit from a room names its
\* cause: 'room closed' when the room is absent, 'banned' when the user is
\* in bannedUsers (never 'kicked', although a ban also removes the user
\* from participants), 'kicked' when the user is only missing from
\* participants; there is no exit without one of these causes.
C31_NoticeNamesCause ==
  [][\A p \in Procs :
       InvoluntaryExit(p)
       => LET r == sess[p].currentRoom.id
              u == sess[p].currentUser IN
          IF ~RoomExists(r)
            THEN sess'[p].notice = "Room closed or unavailable."
          ELSE IF u \in rooms[r].bannedUsers
            THEN sess'[p].notice = "You have been banned."
          ELSE /\ u \notin rooms[r].participants
               /\ sess'[p].notice = "You have been kicked."]_vars

\* alice was banned, hence removed from participants too, and was told so
C31_Witness ==
  \E p \in Procs :
    /\ sess[p].currentUser = "1001"
    /\ sess[p].currentRoom.id = ""
    /\ sess[p].notice = "You have been banned."
    /\ RoomExists(GroupRoomId)
    /\ "1001" \in rooms[GroupRoomId].bannedUsers
    /\ "1001" \notin rooms[GroupRoomId].participants

(***************************************************************************)
(* The audit log of logins and registrations.                              *)
(***************************************************************************)
\* the submission of p ends in a session: a login or a registration
AuthSuccess(p) ==
  sess[p].currentUser = NoId /\ sess'[p].currentUser # NoId

\* the login of p ends in a refusal: wrong administrative password at the
\* submission, unknown username or wrong password after the lookup
LoginFailure(p) ==
  \/ /\ ncalls' # ncalls
     /\ sess'[p].h = "none"
     /\ sess'[p].authError =
          [type |-> "password", message |-> "wrong administrator password"]
  \/ /\ sess[p].h = "auth_login" /\ sess'[p].h = "none"
     /\ sess'[p].authError.type \in {"username", "password"}

\* C32: every significant action emits exactly one SystemLog record; here
\* each login success, each login failure (unknown username, wrong
\* password, wrong administrative password) and each registration adds one
\* record to the log.
C32_OneLogPerAction ==
  [][\A p \in Procs :
       (AuthSuccess(p) \/ LoginFailure(p))
       => Len(logs') = Len(logs) + 1]_vars

(***************************************************************************)
(* The log view of the AdminPanel (components/AdminPanel.tsx) and the log  *)
(* functions of the storage service.  The call record of a client with    *)
(* the panel mounted holds the panel's state: snapM is its local list     *)
(* `logs`, flag tells that the log query has a snapshot to deliver, res   *)
(* is what clearLogs last wrote to the console.                            *)
(***************************************************************************)
logLimit == 100

\* query(collection(db, "logs"), orderBy("timestamp", "desc"), limit(100)):
\* the stored records, latest first, cut after logLimit
LogsQuery(stored) ==
  [i \in 1..(IF Len(stored) < logLimit THEN Len(stored) ELSE logLimit) |->
     stored[Len(stored) + 1 - i]]

\* the panel with its useState initial values, the listener just registered
MountedPanel ==
  [IdleCall EXCEPT !.op = "AdminPanel", !.pc = "mounted", !.flag = TRUE]

ClearLogsDeletes(p) ==
  /\ call[p].op = "AdminPanel"
  /\ logs' = <<>>
  /\ call' = [call EXCEPT ![p].snapM = <<>>, ![p].res = "not implemented"]
  /\ UNCHANGED <<users, rooms, ncalls, cv, subMsgs, sess>>

\* handleClearLogs with the confirm accepted: clearLogs() only writes to
\* the console, then setLogs([])
ClearLogs(p) ==
  /\ call[p].op = "AdminPanel"
  /\ logs' = logs
  /\ call' = [call EXCEPT ![p].snapM = <<>>, ![p].res = "not implemented"]
  /\ UNCHANGED <<users, rooms, ncalls, cv, subMsgs, sess>>

\* the onSnapshot callback of the panel: setLogs(updatedLogs)
LogsSnapshot(p) ==
  /\ call[p].op = "AdminPanel"
  /\ call[p].flag
  /\ call' = [call EXCEPT ![p].snapM = LogsQuery(logs), ![p].flag = FALSE]
  /\ UNCHANGED <<users, rooms, ncalls, cv, subMsgs, sess, logs>>

\* some client's action calls addLog(event, ...); the query of every
\* mounted panel has a new snapshot
LogAdded(event) ==
  /\ ncalls < MaxCalls
  /\ ncalls' = ncalls + 1
  /\ logs' = addLog(event)
  /\ call' = [p \in Procs |->
               IF call[p].op = "AdminPanel"
               THEN [call[p] EXCEPT !.flag = TRUE] ELSE call[p]]
  /\ UNCHANGED <<users, rooms, cv, subMsgs, sess>>

\* n stored records, oldest first
StoredLogs(n) == [i \in 1..n |-> "EVENT_" \o ToString(i)]

(***************************************************************************)
(* SpecPanel: two administrators have the panel open on a log collection   *)
(* of up to logLimit + 1 records; they clear their views while actions of  *)
(* other clients add records.                                              *)
(***************************************************************************)
InitPanel ==
  /\ users = RegisteredUsers
  /\ rooms = NoRooms
  /\ call = [p \in Procs |-> MountedPanel]
  /\ ncalls = 0
  /\ cv = NoCrypto
  /\ subMsgs = <<>>
  /\ sess = [p \in Procs |->
               Settled([AnonSession EXCEPT !.currentUser = AdminId])]
  /\ \E n \in {0, 1, 2, logLimit - 1, logLimit, logLimit + 1} :
       logs = StoredLogs(n)

NextPanel ==
  \/ \E p \in Procs : ClearLogs(p)
  \/ \E p \in Procs : LogsSnapshot(p)
  \/ \E event \in {"LOGIN_SUCCESS", "MESSAGE_SENT"} : LogAdded(event)

SpecPanel == InitPanel /\ [][NextPanel]_vars

MutedInStore(s) ==
  /\ s.currentRoom.id # ""
  /\ RoomExists(s.currentRoom.id)
  /\ s.currentUser \in rooms[s.currentRoom.id].mutedUsers

\* C34: once a '/mute' of user U on room R has completed in the store, no
\* user-origin message sent by U (non-admin) is appended to R afterwards:
\* a handleSendMessage of U that starts while the store lists U in
\* R.mutedUsers starts no store call, whatever snapshot U's session holds.
C34_MutedInStoreSendsNothing ==
  [][\A p \in Procs :
       (/\ sess[p].h = "none"
        /\ sess[p].currentUser \notin {NoId, AdminId}
        /\ MutedInStore(sess[p]))
       => call'[p] = call[p]]_vars

(***************************************************************************)
(* The session's room and user.                                            *)
(***************************************************************************)
\* C35: in every reachable session state currentRoom is non-null only
\* while currentUser is non-null, also after a logout that happens while a
\* joinRoom call of the session is still awaiting the store.
C35_RoomOnlyWithUser ==
  \A p \in Procs :
    sess[p].currentRoom.id # "" => sess[p].currentUser # NoId

(***************************************************************************)
(* Friends and pending requests.                                           *)
(***************************************************************************)
\* C36: in every reachable state no user id is at the same time in a
\* user's friends and in that user's friendRequests, also when two users
\* have each sent the other a request before either is accepted.
C36_FriendNotPending ==
  \A u \in DOMAIN users :
    users[u].friends \cap users[u].friendRequests = {}

\* C37: a friendship is created only from a pending request: a
\* handleFriendRequest(U, R, 'accept') whose requester R was not in
\* U.friendRequests when the call started changes no friends set and no
\* room.
C37_AcceptNeedsPending ==
  [][\A p \in Procs :
       (/\ call[p].op = "handleFriendRequest"
        /\ call[p].flag
        /\ call[p].cmd # "pending"
        /\ call'[p] # call[p])
       => /\ rooms' = rooms
          /\ DOMAIN users' = DOMAIN users
          /\ \A u \in DOMAIN users : users'[u].friends = users[u].friends]_vars

(***************************************************************************)
(* Read receipts of one's own messages.                                    *)
(***************************************************************************)
\* message m was sent by the user with id u: handleSendMessage records the
\* sender's username in senderName
SentBy(m, u) ==
  m.sender = "user" /\ UserExists(u) /\ m.senderName = users[u].username

\* C38: markMessagesAsRead never adds a user's id to the readBy of a
\* message that this user sent: no stored message has its sender's id in
\* readBy.
C38_OwnMessageNeverRead ==
  \A u \in DOMAIN users :
    /\ \A i \in 1..Len(subMsgs) :
         SentBy(subMsgs[i], u) => u \notin subMsgs[i].readBy
    /\ \A r \in DOMAIN rooms : \A i \in 1..Len(rooms[r].messages) :
         SentBy(rooms[r].messages[i], u) => u \notin rooms[r].messages[i].readBy

(***************************************************************************)
(* handleCreateRoom (App.tsx) and createRoom (services/storageService.ts). *)
(* The room name typed is not blank.                                       *)
(***************************************************************************)
\* Math.floor(1000000 + Math.random() * 9000000).toString(): any 7-digit
\* code, the code of an existing room included
RoomIdDraws == {GroupRoomId, OtherRoomId}

\* newRoom as handleCreateRoom builds it
NewGroupRoom(creator) == RoomDoc("group", {creator})

\* handleCreateRoom up to await createRoom(newRoom)
CreateBegin(p, r) ==
  /\ sess[p].currentUser # NoId /\ sess[p].h = "none"
  /\ CanStart(p)
  /\ call' = [call EXCEPT ![p] =
       [IdleCall EXCEPT !.op = "createRoom", !.pc = "create_write",
                        !.room = r, !.user = sess[p].currentUser]]
  /\ ncalls' = ncalls + 1
  /\ sess' = [sess EXCEPT ![p].h = "create", ![p].hroom = r]
  /\ UNCHANGED <<users, rooms, cv, subMsgs, logs>>

\* await setDoc(doc(db, "rooms", room.id), room): the document is written
\* whole, whether or not one with this id exists
CreateWrite(p) ==
  /\ call[p].pc = "create_write"
  /\ LET c == call[p] IN
     /\ rooms' = [x \in DOMAIN rooms \cup {c.room} |->
                    IF x = c.room THEN NewGroupRoom(c.user) ELSE rooms[x]]
     /\ call' = [call EXCEPT ![p] = Return(p, "created")]
  /\ UNCHANGED <<users, ncalls, cv, subMsgs, sess, logs>>

\* handleCreateRoom after the await: setCurrentRoom(newRoom), the log record
CreateDone(p) ==
  /\ sess[p].h = "create"
  /\ call[p].pc = "done"
  /\ sess' = [sess EXCEPT ![p] =
       EnterRoom([sess[p] EXCEPT !.h = "none", !.hroom = ""],
                 [id |-> sess[p].hroom,
                  doc |-> <<NewGroupRoom(call[p].user)>>])]
  /\ logs' = addLog("ROOM_CREATE")
  /\ call' = [call EXCEPT ![p] = IdleCall]
  /\ UNCHANGED <<users, rooms, ncalls, cv, subMsgs>>

(***************************************************************************)
(* SpecCreate: alice and bob create and join rooms; bob may already be in  *)
(* the group room, which may hold a message and a muted or banned user.    *)
(***************************************************************************)
InitCreate ==
  /\ users = RegisteredUsers
  /\ \E inside \in BOOLEAN, marked \in SUBSET {"1001"},
        ms \in {<<>>, <<Message("t1", "user", "bob")>>} :
       /\ rooms = [r \in {GroupRoomId} |->
            [RoomDoc("group", IF inside THEN {"1002"} ELSE {}) EXCEPT
               !.messages = ms, !.mutedUsers = marked]]
       /\ sess = [p \in Procs |->
            Settled(
              IF p = "c1" THEN [AnonSession EXCEPT !.currentUser = "1001"]
              ELSE IF inside
                THEN [AnonSession EXCEPT
                        !.currentUser = "1002", !.luser = "1002",
                        !.currentRoom = [id |-> GroupRoomId,
                                         doc |-> <<rooms[GroupRoomId]>>]]
              ELSE [AnonSession EXCEPT !.currentUser = "1002"])]
  /\ call = [p \in Procs |-> IdleCall]
  /\ ncalls = 0
  /\ cv = NoCrypto
  /\ subMsgs = <<>>
  /\ logs = <<>>

NextCreate ==
  \E p \in Procs :
    \/ \E r \in RoomIdDraws : CreateBegin(p, r)
    \/ CreateWrite(p)
    \/ CreateDone(p)
    \/ JoinBegin(p, GroupRoomId)
    \/ JoinRead(p)
    \/ JoinWrite(p)
    \/ JoinDone(p)
    \/ RoomSnapshot(p)
    \/ Logout(p)

SpecCreate == InitCreate /\ [][NextCreate]_vars

\* C39: creating a room never alters an existing one: createRoom with an
\* id that the store already holds leaves the existing room's
\* participants, bannedUsers, mutedUsers and messages unchanged.
C39_CreateKeepsExisting ==
  [][\A p \in Procs :
       (call[p].pc = "create_write" /\ call'[p].pc = "done")
       => \A r \in DOMAIN rooms :
            /\ r \in DOMAIN rooms'
            /\ rooms'[r].participants = rooms[r].participants
            /\ rooms'[r].bannedUsers = rooms[r].bannedUsers
            /\ rooms'[r].mutedUsers = rooms[r].mutedUsers
            /\ rooms'[r].messages = rooms[r].messages]_vars

(***************************************************************************)
(* SpecAppend: alice's and bob's clients append user, system and AI messages *)
(* to the sub-collection of the group room; the id of a message is the     *)
(* clock reading at which its client built it.                             *)
(***************************************************************************)
\* the message client p builds at clock reading id
BuiltMessage(p, id, sender) ==
  Message(id, sender,
          CASE sender = "user" -> (IF p = "c1" THEN "alice" ELSE "bob")
            [] sender = "ai" -> "AI_TERMINAL"
            [] OTHER -> "")

InitAppend ==
  /\ users = RegisteredUsers
  /\ rooms = [r \in {GroupRoomId} |-> RoomDoc("group", UserIds)]
  /\ call = [p \in Procs |-> IdleCall]
  /\ ncalls = 0
  /\ cv = NoCrypto
  /\ subMsgs = <<>>
  /\ sess = NoSessions
  /\ logs = <<>>

NextAppend ==
  \E p \in Procs, id \in ClockIds, sender \in {"user", "system", "ai"} :
    AddDocument(p, BuiltMessage(p, id, sender))

SpecAppend == InitAppend /\ [][NextAppend]_vars

\* C40: in the storage service that keeps messages in a sub-collection
\* keyed by message id, appending never overwrites: every message stored
\* before an addMessageToRoom is stored after it, also when the new
\* message carries the id of a stored one.
C40_AppendNeverOverwrites ==
  [][\A i \in 1..Len(subMsgs) : subMsgs[i] \in Range(subMsgs')]_vars

=============================================================================
